---- MODULE Spec2Model ----
(***************************************************************************)
(* A model of ssh-packet.  The packet framer (src/src/packet/mod.rs):      *)
(* Packet::to_writer and Packet::from_reader, driven through a cipher      *)
(* suite (the CipherCore / SealingCipher / OpeningCipher capability), a    *)
(* byte stream between the two peers, and the caller-owned sequence        *)
(* counters, every poll of the stream a step (specification Spec).  The    *)
(* codec: arch::Bytes, the strings, kex::Lengthed and the exchange hash,   *)
(* the tagged messages of connect.rs and userauth.rs, the reason codes     *)
(* and the identification string, each operation applied on its own to     *)
(* bounded inputs (specification CodecSpec).                               *)
(* Bytes are integers 0..255, buffers are sequences of bytes.              *)
(***************************************************************************)
EXTENDS Integers, Sequences, FiniteSets, TLC

\* ------------------------------------------------------------------ bounds
\* Longest payload handed to to_writer.
MaxPayloadLen == 3
\* Number of to_writer calls in one behaviour.
MaxPackets == 2

\* ------------------------------------------------------- program constants
PACKET_MAX_SIZE == 65535
PACKET_MIN_SIZE == 16
\* size_of::<u32>(), the width of the length field.
LenFieldSize == 4
\* A u32 is kept as its two 16-bit halves, [hi, lo]: value hi * 2^16 + lo.
Half == 65536

\* ----------------------------------------------------------------- inputs
\* Payloads tried: byte i of the k-th payload of a behaviour is
\* seed + 85 * i + 31 * k (mod 256), for every length up to MaxPayloadLen.
PayloadSeeds == {0, 171}
PayloadOf(sd, k, n) == [i \in 1..n |-> (sd + 85 * i + 31 * k) % 256]
\* The (random) padding: byte i of the padding of the k-th packet.
PadByte(sd, k, i) == (7 * sd + 13 * k + 29 * i) % 256
\* Initial value of the sequence counters: zero, and one before the wrap.
SeqStarts == {[hi |-> 0, lo |-> 0], [hi |-> Half - 1, lo |-> Half - 1]}
\* What a single-byte corruption adds to the byte (mod 256).
FlipDeltas == {1, 128}
\* Length fields an arbitrary peer may send.
InjectLens ==
  { [hi |-> 0, lo |-> 0], [hi |-> 0, lo |-> 1], [hi |-> 0, lo |-> 12],
    [hi |-> 0, lo |-> 4],                    \* 4 + length is one block
    [hi |-> 0, lo |-> PACKET_MAX_SIZE],      \* the maximum itself
    [hi |-> 1, lo |-> 0],                    \* the maximum plus one
    [hi |-> Half - 1, lo |-> Half - 1] }     \* u32::MAX
\* The step of to_writer that fails, if any.
WriteFaults == {"none", "compress", "pad", "encrypt", "seal", "write_buf", "write_mac"}
\* The calls tried: every payload length without a failure, and every
\* failure with the longest payload.
WriteInputs ==
  { << n, "none" >> : n \in 0..MaxPayloadLen }
  \cup { << MaxPayloadLen, f >> : f \in WriteFaults }

\* ------------------------------------------------------------ byte helpers
RECURSIVE Sum(_)
Sum(s) == IF s = <<>> THEN 0 ELSE Head(s) + Sum(Tail(s))

\* buf[lo..hi) with 0-based bounds, as a Rust slice.
Slice(buf, lo, hi) == [i \in 1..(hi - lo) |-> buf[lo + i]]

Repeat(b, n) == [i \in 1..n |-> b]

\* usize::min
Min(a, b) == IF a < b THEN a ELSE b

\* n as u32, for a buffer length n
ToU32(n) == [hi |-> (n \div Half) % Half, lo |-> n % Half]

\* v as usize (64-bit: no loss); only taken of values the model can hold
AsUsize(v) == v.hi * Half + v.lo

\* v.wrapping_add(k) on u32, for a small k
U32Add(v, k) ==
  [hi |-> (v.hi + (v.lo + k) \div Half) % Half, lo |-> (v.lo + k) % Half]

\* u32::to_be_bytes
U32BE(v) == << v.hi \div 256, v.hi % 256, v.lo \div 256, v.lo % 256 >>

\* u32::from_be_bytes
FromBE(b) == [hi |-> b[1] * 256 + b[2], lo |-> b[3] * 256 + b[4]]


\* ------------------------------------------------------------ cipher suite
\* The capability the framer consumes (CipherCore, SealingCipher,
\* OpeningCipher and Mac).  A suite is a record
\*   bs    block_size()
\*   msz   mac().size()
\*   etm   mac().etm()
\*   key   key of the stream cipher (0: encrypt and decrypt are no-ops)
\*   comp  compression: "none" (identity) or "mark" (a marker byte in front)
Suites ==
  { [bs |-> 8, msz |-> 0, etm |-> e, key |-> 0, comp |-> "none"] : e \in BOOLEAN }
  \cup
  { [bs |-> 8, msz |-> 2, etm |-> e, key |-> 3, comp |-> "mark"] : e \in BOOLEAN }

NoOpSuite(s) == s.bs = 8 /\ s.msz = 0 /\ s.key = 0 /\ s.comp = "none"

\* Keystream byte at stream offset off (0-based); the cipher is stateful,
\* its state being the number of bytes processed so far.
KeyStream(s, off) == (s.key * (off + 1)) % 256

\* encrypt(&mut data) with the cipher at offset off.
EncryptBytes(s, off, data) ==
  [i \in 1..Len(data) |-> (data[i] + KeyStream(s, off + i - 1)) % 256]

\* decrypt(&mut data) with the cipher at offset off.
DecryptBytes(s, off, data) ==
  [i \in 1..Len(data) |-> (data[i] + 256 - KeyStream(s, off + i - 1)) % 256]

\* seal(buf, seq): the MAC of seq || buf, mac().size() bytes.
Seal(s, buf, seq) ==
  IF s.msz = 0 THEN <<>>
  ELSE LET t == (seq.hi + seq.lo + Sum(buf)) % Half IN << t \div 256, t % 256 >>

\* open(buf, mac, seq): TRUE when the MAC verifies.
Open(s, buf, mac, seq) == mac = Seal(s, buf, seq)

CompressMark == 120

\* compress(payload)
Compress(s, payload) ==
  IF s.comp = "mark" THEN <<CompressMark>> \o payload ELSE payload

\* decompress(payload): [ok, out]
Decompress(s, payload) ==
  IF s.comp = "mark"
  THEN IF Len(payload) >= 1 /\ payload[1] = CompressMark
       THEN [ok |-> TRUE, out |-> Tail(payload)]
       ELSE [ok |-> FALSE, out |-> <<>>]
  ELSE [ok |-> TRUE, out |-> payload]

\* padding(payload_len): the padding length, at least 4, that makes
\* 4 + 1 + payload_len + padding a multiple of the block size and at least
\* PACKET_MIN_SIZE.
Padding(s, n) ==
  LET size == LenFieldSize + 1 + n
      p0   == s.bs - (size % s.bs)
      p1   == IF p0 < 4 THEN p0 + s.bs ELSE p0
  IN  IF size + p1 < PACKET_MIN_SIZE THEN p1 + s.bs ELSE p1

\* pad(compressed, padding): padlen byte, payload, padding bytes.
Pad(compressed, padding, rnd) ==
  <<padding>> \o compressed \o [i \in 1..padding |-> rnd[i]]

\* One entry of the record of what a call did to the cipher suite and to
\* its buffer:  op over buf[lo..hi), with the bytes and seq handed over.
NoSeq == [hi |-> 0, lo |-> 0]
Ev(op, lo, hi, data, mac, seq, ok) ==
  [op |-> op, lo |-> lo, hi |-> hi, data |-> data, mac |-> mac, seq |-> seq, ok |-> ok]


\* ---------------------------------------------------------------- to_writer
\* The result of the part of to_writer that runs before its first await:
\*   res   "ok", or "err" when a cipher operation returned an error
\*   buf   the bytes to write first,  mac  the bytes to write after them
\*   off   the sealing cipher's offset afterwards
\*   log   the cipher operations invoked, in order
WRes(res, buf, mac, off, log) ==
  [res |-> res, buf |-> buf, mac |-> mac, off |-> off, log |-> log]

\* SealEtm with the MAC taken over the plaintext, before encrypting.
SealEtmMacFirst(s, off, buf, seq, fault) ==
  LET n   == Len(buf)
      ct  == Slice(buf, 0, LenFieldSize)
               \o EncryptBytes(s, off, Slice(buf, LenFieldSize, n))
      off2 == off + (n - LenFieldSize)
      e1(ok) == Ev("seal", 0, n, buf, <<>>, seq, ok)
      e2(ok) == Ev("encrypt", LenFieldSize, n, Slice(buf, LenFieldSize, n), <<>>, NoSeq, ok)
  IN  IF fault = "seal" THEN WRes("err", <<>>, <<>>, off, << e1(FALSE) >>)
      ELSE IF fault = "encrypt"
      THEN WRes("err", <<>>, <<>>, off, << e1(TRUE), e2(FALSE) >>)
      ELSE WRes("ok", ct, Seal(s, buf, seq), off2, << e1(TRUE), e2(TRUE) >>)

\* The encrypt-then-mac branch: encrypt buf[4..], then seal the result.
SealEtm(s, off, buf, seq, fault) ==
  LET n   == Len(buf)
      ct  == Slice(buf, 0, LenFieldSize)
               \o EncryptBytes(s, off, Slice(buf, LenFieldSize, n))
      off2 == off + (n - LenFieldSize)
      e1(ok) == Ev("encrypt", LenFieldSize, n, Slice(buf, LenFieldSize, n), <<>>, NoSeq, ok)
      e2(ok) == Ev("seal", 0, n, ct, <<>>, seq, ok)
  IN  IF fault = "encrypt" THEN WRes("err", <<>>, <<>>, off, << e1(FALSE) >>)
      ELSE IF fault = "seal"
      THEN WRes("err", <<>>, <<>>, off2, << e1(TRUE), e2(FALSE) >>)
      ELSE WRes("ok", ct, Seal(s, ct, seq), off2, << e1(TRUE), e2(TRUE) >>)

\* SealEam with the encryption first and the MAC over the ciphertext.
SealEamEncryptFirst(s, off, buf, seq, fault) ==
  LET n   == Len(buf)
      ct  == EncryptBytes(s, off, buf)
      e1(ok) == Ev("encrypt", 0, n, buf, <<>>, NoSeq, ok)
      e2(ok) == Ev("seal", 0, n, ct, <<>>, seq, ok)
  IN  IF fault = "encrypt" THEN WRes("err", <<>>, <<>>, off, << e1(FALSE) >>)
      ELSE IF fault = "seal"
      THEN WRes("err", <<>>, <<>>, off + n, << e1(TRUE), e2(FALSE) >>)
      ELSE WRes("ok", ct, Seal(s, ct, seq), off + n, << e1(TRUE), e2(TRUE) >>)

\* SealEam with the sequence number advanced before it is handed to seal.
SealEamNextSeq(s, off, buf, seq, fault) ==
  LET n   == Len(buf)
      ct  == EncryptBytes(s, off, buf)
      nxt == U32Add(seq, 1)
      e1(ok) == Ev("seal", 0, n, buf, <<>>, nxt, ok)
      e2(ok) == Ev("encrypt", 0, n, buf, <<>>, NoSeq, ok)
  IN  IF fault = "seal" THEN WRes("err", <<>>, <<>>, off, << e1(FALSE) >>)
      ELSE IF fault = "encrypt"
      THEN WRes("err", <<>>, <<>>, off, << e1(TRUE), e2(FALSE) >>)
      ELSE WRes("ok", ct, Seal(s, buf, nxt), off + n, << e1(TRUE), e2(TRUE) >>)

\* The other branch: seal the plaintext, then encrypt buf[..].
SealEam(s, off, buf, seq, fault) ==
  LET n   == Len(buf)
      ct  == EncryptBytes(s, off, buf)
      e1(ok) == Ev("seal", 0, n, buf, <<>>, seq, ok)
      e2(ok) == Ev("encrypt", 0, n, buf, <<>>, NoSeq, ok)
  IN  IF fault = "seal" THEN WRes("err", <<>>, <<>>, off, << e1(FALSE) >>)
      ELSE IF fault = "encrypt"
      THEN WRes("err", <<>>, <<>>, off, << e1(TRUE), e2(FALSE) >>)
      ELSE WRes("ok", ct, Seal(s, buf, seq), off + n, << e1(TRUE), e2(TRUE) >>)

\* Assemble with the length field counting its own four bytes.
AssembleCountingItself(padded) ==
  U32BE(ToU32(LenFieldSize + Len(padded))) \o padded

\* The length field in front of the padded payload.
Assemble(padded) == U32BE(ToU32(Len(padded))) \o padded

\* to_writer up to its first write: compress, pad, assemble, seal.
ToWriterSync(s, off, payload, rnd, seq, fault) ==
  LET compressed == Compress(s, payload)
      c(ok)      == Ev("compress", 0, Len(payload), payload, <<>>, NoSeq, ok)
      padding    == Padding(s, Len(compressed))
      p(ok)      == Ev("pad", 0, Len(compressed), compressed, <<>>, NoSeq, ok)
      buf        == Assemble(Pad(compressed, padding, rnd))
      r          == IF s.etm THEN SealEtm(s, off, buf, seq, fault)
                             ELSE SealEam(s, off, buf, seq, fault)
  IN  IF fault = "compress" THEN WRes("err", <<>>, <<>>, off, << c(FALSE) >>)
      ELSE IF fault = "pad"
      THEN WRes("err", <<>>, <<>>, off, << c(TRUE), p(FALSE) >>)
      ELSE [r EXCEPT !.log = << c(TRUE), p(TRUE) >> \o r.log]


\* -------------------------------------------------------------- from_reader
\* The result of a part of from_reader that runs between two awaits:
\*   res   "more" (suspended at the next read), "ok", "err" or "panic"
\*   err   the error returned: "too_large", "mac", "too_small",
\*         "pad_too_large", "decompress"; "index" for an out-of-range slice
\*   buf   the buffer's filled bytes,  len  the parsed length field
\*   out   the payload returned,  off  the opening cipher's offset
\*   log   the cipher operations and buffer accesses, in order
RRes(res, err, buf, len, out, off, log) ==
  [res |-> res, err |-> err, buf |-> buf, len |-> len, out |-> out,
   off |-> off, log |-> log]

\* Lines 49-53: the length field, from the first four bytes of buf.
ParseLen(buf) == FromBE(Slice(buf, 0, LenFieldSize))

\* TooLarge with the bound itself rejected.
TooLargeInclusive(len) == len.hi > 0 \/ len.lo >= PACKET_MAX_SIZE

\* Line 55: len as usize > PACKET_MAX_SIZE
TooLarge(len) == len.hi > 0 \/ len.lo > PACKET_MAX_SIZE

\* From the first block read to the second read_exact: decrypt the block
\* unless encrypt-then-mac, parse and bound the length, size the buffer.
\* The zeroes buf.resize appends are left out of buf: read_exact overwrites
\* every one of them before anything reads them.
AfterBlock(s, off, block) ==
  LET dec  == DecryptBytes(s, off, block)
      buf  == IF s.etm THEN block ELSE dec
      off2 == IF s.etm THEN off ELSE off + Len(block)
      d    == IF s.etm THEN <<>>
              ELSE << Ev("decrypt", 0, Len(block), block, <<>>, NoSeq, TRUE) >>
  IN  IF Len(buf) < LenFieldSize
      THEN RRes("panic", "index", buf, NoSeq, <<>>, off2, d)
      ELSE
        LET len == ParseLen(buf)
            l   == d \o << Ev("parse_len", 0, LenFieldSize,
                              Slice(buf, 0, LenFieldSize), <<>>, NoSeq, TRUE) >>
        IN  IF TooLarge(len)
            THEN RRes("err", "too_large", buf, len, <<>>, off2, l)
            ELSE IF s.bs > LenFieldSize + AsUsize(len)
            THEN RRes("panic", "index", Slice(buf, 0, LenFieldSize + AsUsize(len)),
                      len, <<>>, off2, l)
            ELSE RRes("more", "", buf, len, <<>>, off2, l)

\* OpenEtm with buf[4..] decrypted before the MAC is verified.
OpenEtmDecryptFirst(s, off, buf, mac, seq) ==
  LET n  == Len(buf)
      ok == Open(s, buf, mac, seq)
      pt == Slice(buf, 0, LenFieldSize)
              \o DecryptBytes(s, off, Slice(buf, LenFieldSize, n))
  IN  [ok |-> ok, buf |-> pt, off |-> off + (n - LenFieldSize),
       log |-> << Ev("decrypt", LenFieldSize, n,
                     Slice(buf, LenFieldSize, n), <<>>, NoSeq, TRUE),
                  Ev("open", 0, n, buf, mac, seq, ok) >>]

\* Lines 69-71: verify the MAC over the bytes as received, then decrypt
\* buf[4..].  [ok, buf, off, log]
OpenEtm(s, off, buf, mac, seq) ==
  LET n  == Len(buf)
      ok == Open(s, buf, mac, seq)
      o  == Ev("open", 0, n, buf, mac, seq, ok)
      pt == Slice(buf, 0, LenFieldSize)
              \o DecryptBytes(s, off, Slice(buf, LenFieldSize, n))
  IN  IF ~ok THEN [ok |-> FALSE, buf |-> buf, off |-> off, log |-> << o >>]
      ELSE [ok |-> TRUE, buf |-> pt, off |-> off + (n - LenFieldSize),
            log |-> << o, Ev("decrypt", LenFieldSize, n,
                             Slice(buf, LenFieldSize, n), <<>>, NoSeq, TRUE) >>]

\* OpenEam with the decryption starting after the length field, as in the
\* other branch, instead of after the first block.
OpenEamFromLenField(s, off, buf, mac, seq) ==
  LET n  == Len(buf)
      pt == Slice(buf, 0, LenFieldSize)
              \o DecryptBytes(s, off, Slice(buf, LenFieldSize, n))
      ok == Open(s, pt, mac, seq)
  IN  [ok |-> ok, buf |-> pt, off |-> off + (n - LenFieldSize),
       log |-> << Ev("decrypt", LenFieldSize, n,
                     Slice(buf, LenFieldSize, n), <<>>, NoSeq, TRUE),
                  Ev("open", 0, n, pt, mac, seq, ok) >>]

\* Lines 72-75: decrypt buf[block_size..], then verify the MAC over the
\* whole plaintext.  [ok, buf, off, log]
OpenEam(s, off, buf, mac, seq) ==
  LET n  == Len(buf)
      pt == Slice(buf, 0, s.bs) \o DecryptBytes(s, off, Slice(buf, s.bs, n))
      ok == Open(s, pt, mac, seq)
  IN  [ok |-> ok, buf |-> pt, off |-> off + (n - s.bs),
       log |-> << Ev("decrypt", s.bs, n, Slice(buf, s.bs, n), <<>>, NoSeq, TRUE),
                  Ev("open", 0, n, pt, mac, seq, ok) >>]

\* PayloadSlice running to the end of the buffer, padding included.
PayloadSliceWithPadding(buf, len, padlen) ==
  Slice(buf, LenFieldSize + 1, LenFieldSize + AsUsize(len))

\* PayloadSlice with the padding-length byte taken as the first payload byte.
PayloadSliceFromPadlen(buf, len, padlen) ==
  Slice(buf, LenFieldSize, LenFieldSize + (AsUsize(len) - padlen - 1))

\* Lines 90-91: the len - padlen - 1 bytes after the padding-length byte.
PayloadSlice(buf, len, padlen) ==
  Slice(buf, LenFieldSize + 1, LenFieldSize + 1 + (AsUsize(len) - padlen - 1))

\* PaddingTooLarge with a padding as long as the whole packet let through.
PaddingTooLargeLoose(padlen, len) == padlen > AsUsize(len)

\* Line 83: *padlen as usize > len as usize - 1
PaddingTooLarge(padlen, len) == padlen > AsUsize(len) - 1

\* Lines 77-95: split off the padding length, bound it, cut the payload out
\* and decompress it.
Unpad(s, off, buf, len, log) ==
  IF Len(buf) <= LenFieldSize
  THEN RRes("err", "too_small", buf, len, <<>>, off, log)
  ELSE
    LET padlen == buf[LenFieldSize + 1]
        l1 == log \o << Ev("padlen", LenFieldSize, LenFieldSize + 1,
                           << padlen >>, <<>>, NoSeq, TRUE) >>
    IN  IF PaddingTooLarge(padlen, len)
        THEN RRes("err", "pad_too_large", buf, len, <<>>, off, l1)
        ELSE
          LET payload == PayloadSlice(buf, len, padlen)
              dz      == Decompress(s, payload)
              l2 == l1 \o << Ev("payload", LenFieldSize + 1,
                                LenFieldSize + 1 + Len(payload), payload, <<>>,
                                NoSeq, TRUE),
                             Ev("decompress", LenFieldSize + 1,
                                LenFieldSize + 1 + Len(payload), payload, <<>>,
                                NoSeq, dz.ok) >>
          IN  IF dz.ok THEN RRes("ok", "", buf, len, dz.out, off, l2)
              ELSE RRes("err", "decompress", buf, len, <<>>, off, l2)

\* FinishRead with the padding length bounded before the MAC is looked at.
FinishReadPaddingFirst(s, off, buf, mac, seq, len) ==
  LET o == IF s.etm THEN OpenEtm(s, off, buf, mac, seq)
                    ELSE OpenEam(s, off, buf, mac, seq)
      u == Unpad(s, o.off, o.buf, len, o.log)
  IN  IF u.res = "err" /\ u.err \in {"too_small", "pad_too_large"} THEN u
      ELSE IF ~o.ok THEN RRes("err", "mac", o.buf, len, <<>>, o.off, o.log)
      ELSE u

\* From the MAC read to the return.
FinishRead(s, off, buf, mac, seq, len) ==
  LET o == IF s.etm THEN OpenEtm(s, off, buf, mac, seq)
                    ELSE OpenEam(s, off, buf, mac, seq)
  IN  IF ~o.ok THEN RRes("err", "mac", o.buf, len, <<>>, o.off, o.log)
      ELSE Unpad(s, o.off, o.buf, len, o.log)


\* ------------------------------------------------- from_reader, poll by poll
\* A read_exact that returned: the stream bytes [lo, lo + Len(data)) it
\* filled its buffer with.  A read_exact over an empty buffer returns at
\* once, without a poll of the reader.
ReadEv(lo, data) == Ev("read", lo, lo + Len(data), data, <<>>, NoSeq, TRUE)

\* Line 67 returned with mac filled (pos: the stream position after it):
\* the call runs to its return.
MacFilled(s, off, buf, mac, seq, len, log, pos) ==
  LET r == FinishRead(s, off, buf, mac, seq, len)
  IN  [r EXCEPT !.log = Append(log, ReadEv(pos - Len(mac), mac)) \o r.log]

\* Line 64 returned with buf filled: mac is allocated and line 67 reads it,
\* suspending in the reader ("read_mac") unless the MAC is empty.
RestFilled(s, off, buf, seq, len, log, pos) ==
  LET l == Append(log, ReadEv(pos - (Len(buf) - s.bs), Slice(buf, s.bs, Len(buf))))
  IN  IF s.msz = 0 THEN MacFilled(s, off, buf, <<>>, seq, len, l, pos)
      ELSE RRes("read_mac", "", buf, len, <<>>, off, l)

\* Line 43 returned with the first block filled: lines 45-63, then line 64
\* reads buf[block_size..], suspending in the reader ("read_rest") unless
\* that slice is empty.
BlockFilled(s, off, block, seq, pos) ==
  LET a == AfterBlock(s, off, block)
      l == << ReadEv(pos - Len(block), block) >> \o a.log
  IN  IF a.res # "more" THEN [a EXCEPT !.log = l]
      ELSE IF LenFieldSize + AsUsize(a.len) = s.bs
      THEN RestFilled(s, a.off, a.buf, seq, a.len, l, pos)
      ELSE [a EXCEPT !.res = "read_rest", !.log = l]


\* ------------------------------------------------------------------- state
VARIABLES
  suite,     \* the cipher suite both peers negotiated
  seed,      \* first byte of this behaviour's payloads
  seq0,      \* the value both sequence counters start from
  encOff,    \* state of the sealing cipher: bytes encrypted so far
  decOff,    \* state of the opening cipher: bytes decrypted so far
  sendSeq,   \* the sender's sequence counter (caller-owned)
  recvSeq,   \* the receiver's sequence counter (caller-owned)
  sent,      \* payloads of the to_writer calls that returned Ok
  recvd,     \* payloads the from_reader calls returned
  wire,      \* every byte the writer has accepted so far
  rpos,      \* number of bytes of wire the reader has handed out
  peer,      \* "honest", "tampered" (one byte flipped), "arbitrary"
  wpc,       \* to_writer: "idle", "write_buf", "write_mac" (inside that
             \*            write_all), "ok", "err", "closed"
  wpayload,  \* to_writer: self.0
  wseq,      \* to_writer: its seq argument
  wfault,    \* to_writer: the step that fails in this call
  wbuf,      \* to_writer: buf
  wmac,      \* to_writer: mac
  wdone,     \* to_writer: bytes the writer accepted in the current write_all
  wlog,      \* to_writer: cipher operations of the call, and its write_all
             \*            calls that returned
  wcalls,    \* number of to_writer calls made
  wok,       \* number of to_writer calls that returned Ok(())
  rpc,       \* from_reader: "idle", "read_block", "read_rest", "read_mac"
             \*              (inside that read_exact), "ok", "err", "panic",
             \*              "cancelled"
  rseq,      \* from_reader: its seq argument
  rbuf,      \* from_reader: buf (the bytes filled so far)
  rmac,      \* from_reader: mac (the bytes filled so far)
  rraw,      \* the bytes the call has read into buf, as received
  rlen,      \* from_reader: len
  rerr,      \* from_reader: the error returned
  rout,      \* from_reader: the payload returned
  rlog,      \* from_reader: cipher operations of the call, and its
             \*              read_exact calls that returned
  rstart,    \* rpos when the call began
  rok,       \* number of from_reader calls that returned Ok(packet)
  cop,       \* codec: the operation applied ("idle" before any)
  cin,       \* codec: the value or bytes the operation was given
  cout       \* codec: what the operation returned, or where it is

\* The codec operations are applied on their own, one to an input, and
\* the framer never touches their record.  Those that await a reader or a
\* writer (from_reader, Id::to_writer, Id::from_reader) go on poll by
\* poll, cout holding the call in progress and then what it returned.
codecVars == << cop, cin, cout >>
cfgVars  == << suite, seed, seq0, codecVars >>
sendVars == << encOff, sendSeq, sent, wpc, wpayload, wseq, wfault, wbuf, wmac,
               wdone, wlog, wcalls, wok >>
recvVars == << decOff, recvSeq, recvd, rpc, rseq, rbuf, rmac, rraw, rlen, rerr,
               rout, rlog, rstart, rok >>
vars == << cfgVars, sendVars, recvVars, wire, rpos, peer >>

\* No codec operation applied yet.
CodecIdle == cop = "idle" /\ cin = <<>> /\ cout = <<>>

\* Both directions of a connection before its first packet.
FramerStart ==
  /\ encOff = 0 /\ decOff = 0
  /\ sendSeq = seq0 /\ recvSeq = seq0
  /\ sent = <<>> /\ recvd = <<>>
  /\ wire = <<>> /\ rpos = 0 /\ peer = "honest"
  /\ wpc = "idle" /\ wpayload = <<>> /\ wseq = NoSeq /\ wfault = "none"
  /\ wbuf = <<>> /\ wmac = <<>> /\ wdone = 0 /\ wlog = <<>>
  /\ wcalls = 0 /\ wok = 0
  /\ rpc = "idle" /\ rseq = NoSeq /\ rbuf = <<>> /\ rmac = <<>> /\ rraw = <<>>
  /\ rlen = NoSeq /\ rerr = "" /\ rout = <<>> /\ rlog = <<>> /\ rstart = 0
  /\ rok = 0

Init ==
  /\ suite \in Suites
  /\ seed \in PayloadSeeds
  /\ seq0 \in SeqStarts
  /\ FramerStart
  /\ CodecIdle

\* ------------------------------------------------------------ sending side
\* ToWriterCall that has put a byte on the stream when a step fails.
ToWriterCallWritesEarly ==
  /\ wpc = "idle" /\ wcalls < MaxPackets
  /\ rpc \notin {"err", "panic", "cancelled"}
  /\ \E in \in WriteInputs :
       LET n == in[1]
           f == in[2]
           payload == PayloadOf(seed, wcalls + 1, n)
           rnd == [i \in 1..255 |-> PadByte(seed, wcalls + 1, i)]
           r == ToWriterSync(suite, encOff, payload, rnd, sendSeq, f)
       IN  /\ wpayload' = payload
           /\ wseq' = sendSeq
           /\ wfault' = f
           /\ wbuf' = r.buf /\ wmac' = r.mac /\ wlog' = r.log
           /\ encOff' = r.off
           /\ wpc' = IF r.res = "ok" THEN "write_buf" ELSE "err"
           /\ wire' = IF r.res = "ok" THEN wire ELSE wire \o << 0 >>
  /\ wcalls' = wcalls + 1
  /\ wdone' = 0
  /\ UNCHANGED << cfgVars, recvVars, sendSeq, sent, wok, rpos, peer >>

\* The caller invokes to_writer(payload, writer, cipher, sendSeq) and polls
\* it: the call runs to write_all(&buf), before the first poll of the
\* writer, or returns a cipher error.
\* No packet is sent on a connection whose reading side has failed: every
\* error of from_reader is fatal for the connection.
ToWriterCall ==
  /\ wpc = "idle" /\ wcalls < MaxPackets
  /\ rpc \notin {"err", "panic", "cancelled"}
  /\ \E in \in WriteInputs :
       LET n == in[1]
           f == in[2]
           payload == PayloadOf(seed, wcalls + 1, n)
           rnd == [i \in 1..255 |-> PadByte(seed, wcalls + 1, i)]
           r == ToWriterSync(suite, encOff, payload, rnd, sendSeq, f)
       IN  /\ wpayload' = payload
           /\ wseq' = sendSeq
           /\ wfault' = f
           /\ wbuf' = r.buf /\ wmac' = r.mac /\ wlog' = r.log
           /\ encOff' = r.off
           /\ wpc' = IF r.res = "ok" THEN "write_buf" ELSE "err"
  /\ wcalls' = wcalls + 1
  /\ wdone' = 0
  /\ UNCHANGED << cfgVars, recvVars, sendSeq, sent, wok, wire, rpos, peer >>

\* A stream may take or hand over fewer bytes than it is asked for: the
\* first poll of a write_all or read_exact may move ShortChunk bytes (one
\* less than is asked, if that is fewer), a later poll moves all it can.
ShortChunk == 5

\* Numbers of bytes one poll_write / poll_read may move, for a write_all /
\* read_exact over total bytes, done of them moved already, the stream
\* having room for, or holding, avail bytes.
Chunks(total, done, avail) ==
  LET all == Min(total - done, avail)
  IN  IF done = 0 THEN { k \in {Min(ShortChunk, total - 1), all} : 0 < k /\ k <= all }
      ELSE {all}

\* One poll_write inside writer.write_all(&buf) (line 131): the writer
\* accepts some of the bytes left, which are on the stream from then on, or
\* returns an error, which to_writer returns.  The writer may return
\* Pending between two polls.  When buf is through, line 132 runs:
\* write_all(&mac) suspends in the writer, or, the MAC being empty, returns
\* without polling it and to_writer returns Ok(()).
WriteBuf ==
  /\ wpc = "write_buf"
  /\ \/ /\ wfault = "write_buf"
        /\ wpc' = "err"
        /\ wlog' = Append(wlog, Ev("write", 0, Len(wbuf), wbuf, <<>>, NoSeq, FALSE))
        /\ UNCHANGED << wire, wdone, wok >>
     \/ \E k \in Chunks(Len(wbuf), wdone, Len(wbuf)) :
          LET w == Ev("write", 0, Len(wbuf), wbuf, <<>>, NoSeq, TRUE)
          IN  /\ wfault = "write_buf" => wdone + k < Len(wbuf)
              /\ wire' = wire \o Slice(wbuf, wdone, wdone + k)
              /\ IF wdone + k < Len(wbuf)
                 THEN wdone' = wdone + k /\ UNCHANGED << wpc, wlog, wok >>
                 ELSE IF wmac = <<>>
                 THEN /\ wpc' = "ok" /\ wok' = wok + 1 /\ wdone' = 0
                      /\ wlog' = wlog \o << w, Ev("write", 0, 0, <<>>, <<>>, NoSeq, TRUE) >>
                 ELSE /\ wpc' = "write_mac" /\ wok' = wok /\ wdone' = 0
                      /\ wlog' = Append(wlog, w)
  /\ UNCHANGED << cfgVars, recvVars, encOff, sendSeq, sent, wpayload, wseq,
                  wfault, wbuf, wmac, wcalls, rpos, peer >>

\* One poll_write inside writer.write_all(&mac) (line 132): as in WriteBuf;
\* when the MAC is through, to_writer returns Ok(()).
WriteMac ==
  /\ wpc = "write_mac"
  /\ \/ /\ wfault = "write_mac"
        /\ wpc' = "err"
        /\ wlog' = Append(wlog, Ev("write", 0, Len(wmac), wmac, <<>>, NoSeq, FALSE))
        /\ UNCHANGED << wire, wdone, wok >>
     \/ \E k \in Chunks(Len(wmac), wdone, Len(wmac)) :
          /\ wfault = "write_mac" => wdone + k < Len(wmac)
          /\ wire' = wire \o Slice(wmac, wdone, wdone + k)
          /\ IF wdone + k < Len(wmac)
             THEN wdone' = wdone + k /\ UNCHANGED << wpc, wlog, wok >>
             ELSE /\ wpc' = "ok" /\ wok' = wok + 1 /\ wdone' = 0
                  /\ wlog' = Append(wlog, Ev("write", 0, Len(wmac), wmac, <<>>, NoSeq, TRUE))
  /\ UNCHANGED << cfgVars, recvVars, encOff, sendSeq, sent, wpayload, wseq,
                  wfault, wbuf, wmac, wcalls, rpos, peer >>

\* The caller, after Ok(()): advance the send counter by one, wrapping.
SendDone ==
  /\ wpc = "ok"
  /\ sendSeq' = U32Add(sendSeq, 1)
  /\ sent' = Append(sent, wpayload)
  /\ wpc' = "idle"
  /\ UNCHANGED << cfgVars, recvVars, encOff, wpayload, wseq, wfault, wbuf, wmac,
                  wdone, wlog, wcalls, wok, wire, rpos, peer >>


\* ---------------------------------------------------------- receiving side
\* The bytes the stream holds for the reader, which returns Pending when
\* there are none.
Avail == Len(wire) - rpos
Next_(n) == Slice(wire, rpos, rpos + n)
\* Inside one of the three read_exact: each asks for at least one byte more.
AtAwait == rpc \in {"read_block", "read_rest", "read_mac"}

\* The caller invokes from_reader(reader, cipher, recvSeq) and polls it: the
\* call allocates its block and enters reader.read_exact(&mut buf[..]).
FromReaderCall ==
  /\ rpc = "idle" /\ Len(recvd) < MaxPackets
  /\ rpc' = "read_block"
  /\ rseq' = recvSeq
  /\ rbuf' = <<>> /\ rmac' = <<>> /\ rraw' = <<>> /\ rlen' = NoSeq
  /\ rerr' = "" /\ rout' = <<>>
  /\ rlog' = <<>> /\ rstart' = rpos
  /\ UNCHANGED << cfgVars, sendVars, decOff, recvSeq, recvd, rok, wire, rpos, peer >>

\* The call goes on from a read_exact that returned, to r: the next
\* read_exact that polls the reader, or the return.
Resume(r) ==
  /\ rpc' = r.res /\ rerr' = r.err
  /\ rbuf' = r.buf /\ rlen' = r.len /\ rout' = r.out
  /\ decOff' = r.off /\ rlog' = r.log
  /\ rok' = IF r.res = "ok" THEN rok + 1 ELSE rok

\* One poll_read inside the first read_exact (line 43): the bytes handed
\* over are consumed; when the block is full the call goes on.
ReadBlock ==
  /\ rpc = "read_block" /\ Avail > 0
  /\ \E k \in Chunks(suite.bs, Len(rbuf), Avail) :
     LET got == rbuf \o Next_(k)
     IN  /\ rpos' = rpos + k
         /\ rraw' = got
         /\ IF Len(got) < suite.bs
            THEN /\ rbuf' = got
                 /\ UNCHANGED << rpc, rerr, rlen, rout, decOff, rlog, rok >>
            ELSE Resume(BlockFilled(suite, decOff, got, rseq, rpos + k))
  /\ UNCHANGED << cfgVars, sendVars, recvSeq, recvd, rseq, rmac, rstart,
                  wire, peer >>

\* One poll_read inside the second read_exact (line 64), which fills
\* buf[block_size..] up to 4 + len bytes.
ReadRest ==
  /\ rpc = "read_rest" /\ Avail > 0
  /\ \E k \in Chunks(LenFieldSize + AsUsize(rlen) - suite.bs,
                     Len(rbuf) - suite.bs, Avail) :
     LET got == rbuf \o Next_(k)
     IN  /\ rpos' = rpos + k
         /\ rraw' = rraw \o Next_(k)
         /\ IF Len(got) < LenFieldSize + AsUsize(rlen)
            THEN /\ rbuf' = got
                 /\ UNCHANGED << rpc, rerr, rlen, rout, decOff, rlog, rok >>
            ELSE Resume(RestFilled(suite, decOff, got, rseq, rlen, rlog, rpos + k))
  /\ UNCHANGED << cfgVars, sendVars, recvSeq, recvd, rseq, rmac, rstart,
                  wire, peer >>

\* ReadMac that looks at the MAC without taking it from the stream.
ReadMacLeavesTrailer ==
  /\ rpc = "read_mac" /\ Avail > 0
  /\ \E k \in Chunks(suite.msz, Len(rmac), Avail) :
     LET got == rmac \o Next_(k)
     IN  /\ rpos' = rpos
         /\ rmac' = got
         /\ IF Len(got) < suite.msz
            THEN UNCHANGED << rpc, rerr, rbuf, rlen, rout, decOff, rlog, rok >>
            ELSE Resume(MacFilled(suite, decOff, rbuf, got, rseq, rlen, rlog, rpos + k))
  /\ UNCHANGED << cfgVars, sendVars, recvSeq, recvd, rseq, rraw, rstart,
                  wire, peer >>

\* One poll_read inside the third read_exact (line 67), which fills mac;
\* when it is full the call runs to its return.
ReadMac ==
  /\ rpc = "read_mac" /\ Avail > 0
  /\ \E k \in Chunks(suite.msz, Len(rmac), Avail) :
     LET got == rmac \o Next_(k)
     IN  /\ rpos' = rpos + k
         /\ rmac' = got
         /\ IF Len(got) < suite.msz
            THEN UNCHANGED << rpc, rerr, rbuf, rlen, rout, decOff, rlog, rok >>
            ELSE Resume(MacFilled(suite, decOff, rbuf, got, rseq, rlen, rlog, rpos + k))
  /\ UNCHANGED << cfgVars, sendVars, recvSeq, recvd, rseq, rraw, rstart,
                  wire, peer >>

\* A poll_read inside a read_exact returns an error (or the end of the
\* stream): from_reader returns it.  The bytes the read_exact took before
\* stay taken.
ReadIoError ==
  /\ AtAwait
  /\ rpc' = "err" /\ rerr' = "io"
  /\ UNCHANGED << cfgVars, sendVars, decOff, recvSeq, recvd, rseq, rbuf, rmac,
                  rraw, rlen, rout, rlog, rstart, rok, wire, rpos, peer >>

\* The caller drops the from_reader future while it is suspended inside a
\* read_exact, the reader having returned Pending.
Cancel ==
  /\ AtAwait
  /\ rpc' = "cancelled"
  /\ UNCHANGED << cfgVars, sendVars, decOff, recvSeq, recvd, rseq, rbuf, rmac,
                  rraw, rlen, rerr, rout, rlog, rstart, rok, wire, rpos, peer >>

\* The caller, after Ok(packet): advance the receive counter by one, wrapping.
RecvDone ==
  /\ rpc = "ok"
  /\ recvSeq' = U32Add(recvSeq, 1)
  /\ recvd' = Append(recvd, rout)
  /\ rpc' = "idle"
  /\ UNCHANGED << cfgVars, sendVars, decOff, rseq, rbuf, rmac, rraw, rlen, rerr,
                  rout, rlog, rstart, rok, wire, rpos, peer >>

\* ------------------------------------------------------------- the stream
\* One byte of the first packet is altered in flight, and nothing is
\* forwarded after it.
Tamper ==
  /\ peer = "honest" /\ wpc = "idle" /\ Len(sent) = 1 /\ rpos = 0
  /\ \E p \in 1..Len(wire), d \in FlipDeltas :
       wire' = [wire EXCEPT ![p] = (wire[p] + d) % 256]
  /\ peer' = "tampered"
  /\ wpc' = "closed"
  /\ UNCHANGED << cfgVars, recvVars, encOff, sendSeq, sent, wpayload, wseq,
                  wfault, wbuf, wmac, wdone, wlog, wcalls, wok, rpos >>

\* Number of bytes an arbitrary peer sends after the length field.
InjectTails(s) == {s.bs - LenFieldSize, 12 + s.msz}

\* The peer is not this library: it sends a first block whose length
\* field parses to n, followed by t more bytes, and nothing else.
Inject ==
  /\ peer = "honest" /\ wpc = "idle" /\ wcalls = 0 /\ rpos = 0
  /\ \E n \in InjectLens, t \in InjectTails(suite) :
       LET plain == U32BE(n) \o Repeat(seed % 16, t)
       IN  wire' = IF suite.etm THEN plain
                   ELSE EncryptBytes(suite, 0, plain)
  /\ peer' = "arbitrary"
  /\ wpc' = "closed"
  /\ UNCHANGED << cfgVars, recvVars, encOff, sendSeq, sent, wpayload, wseq,
                  wfault, wbuf, wmac, wdone, wlog, wcalls, wok, rpos >>

Next ==
  \/ ToWriterCall \/ WriteBuf \/ WriteMac \/ SendDone
  \/ FromReaderCall \/ ReadBlock \/ ReadRest \/ ReadMac
  \/ ReadIoError \/ Cancel \/ RecvDone
  \/ Tamper \/ Inject

Spec == Init /\ [][Next]_vars


\* ============================================================== the codec
\* The operations below are pure functions of their input.  Each is applied
\* once, to an input drawn from a bounded set, and its result is recorded
\* in cout next to the input in cin.

\* Longest payload framed on its own.
MaxFrameLen == 20

\* Suites framed on their own: those of the connection, and the same with a
\* block of 16 bytes.
FrameSuites ==
  { [bs |-> b, msz |-> 0, etm |-> e, key |-> 0, comp |-> "none"] :
      b \in {8, 16}, e \in BOOLEAN }
  \cup
  { [bs |-> b, msz |-> 2, etm |-> e, key |-> 3, comp |-> "mark"] :
      b \in {8, 16}, e \in BOOLEAN }

framerVars == << suite, seed, seq0, sendVars, recvVars, wire, rpos, peer >>

\* Longest length field of a packet deframed on its own.
MaxDeframeLen == 12

\* Suites deframed on their own: blocks of 4 and of 8 bytes.
DeframeSuites ==
  { [bs |-> b, msz |-> 0, etm |-> e, key |-> 0, comp |-> "none"] :
      b \in {4, 8}, e \in BOOLEAN }
  \cup
  { [bs |-> b, msz |-> 2, etm |-> e, key |-> 3, comp |-> "mark"] :
      b \in {4, 8}, e \in BOOLEAN }

\* Padding-length bytes tried for a length field len: small ones, the
\* largest allowed, the first refused, and the largest a byte holds.
PadLens(len) == { p \in {0, 4, len - 1, len, 255} : p >= 0 }

\* What follows the padding-length byte: n bytes, the first being the
\* compression marker.
BodyOf(n) == [i \in 1..n |-> IF i = 1 THEN CompressMark ELSE (41 * i) % 256]

\* The packet before encryption that declares length len and padding padlen.
PlainPacket(len, padlen) ==
  U32BE(ToU32(len)) \o (IF len = 0 THEN <<>> ELSE << padlen >> \o BodyOf(len - 1))

\* The bytes on the stream for that packet, with the MAC that verifies.
Sealed(s, plain, seq) ==
  IF s.etm
  THEN LET ct == Slice(plain, 0, LenFieldSize)
                   \o EncryptBytes(s, 0, Slice(plain, LenFieldSize, Len(plain)))
       IN  ct \o Seal(s, ct, seq)
  ELSE EncryptBytes(s, 0, plain) \o Seal(s, plain, seq)

\* A from_reader on a reader of its own: the record r of the call, the
\* bytes of mac filled so far, and pos, the number of bytes it has taken
\* from its reader.  While the call is inside a read_exact res names it
\* ("read_block", "read_rest", "read_mac"), and buf and mac hold what
\* that read_exact has filled.
Reading(r, mac, pos) ==
  [res |-> r.res, err |-> r.err, buf |-> r.buf, len |-> r.len, out |-> r.out,
   off |-> r.off, log |-> r.log, mac |-> mac, pos |-> pos]

\* from_reader is called, on a fresh cipher, with a reader that holds the
\* bytes of one packet whose MAC verifies, whatever its length and
\* padding-length fields say, and nothing behind them: the call allocates
\* its block and enters reader.read_exact(&mut buf[..]) (line 43).
Deframe ==
  /\ cop = "idle"
  /\ \E s \in DeframeSuites, len \in 0..MaxDeframeLen :
       \E padlen \in PadLens(len) :
         LET plain == PlainPacket(len, padlen)
         IN  cin' = [suite |-> s, plain |-> plain, len |-> len, padlen |-> padlen,
                     stream |-> Sealed(s, plain, NoSeq)]
  /\ cout' = Reading(RRes("read_block", "", <<>>, NoSeq, <<>>, 0, <<>>), <<>>, 0)
  /\ cop' = "from_reader"
  /\ UNCHANGED framerVars

\* That call is inside one of its three read_exact.
DeframeWaits ==
  cop = "from_reader" /\ cout.res \in {"read_block", "read_rest", "read_mac"}

\* One poll_read inside the read_exact the call is in (lines 43, 64, 67):
\* the reader hands over some of its bytes, which are consumed; when the
\* read_exact is full the call goes on to the next read_exact that polls
\* the reader, or to its return.
DeframePoll ==
  /\ DeframeWaits /\ cout.pos < Len(cin.stream)
  /\ LET s     == cin.suite
         c     == cout
         avail == Len(cin.stream) - c.pos
         total == CASE c.res = "read_block" -> s.bs
                    [] c.res = "read_rest"  -> LenFieldSize + AsUsize(c.len) - s.bs
                    [] OTHER                -> s.msz
         done  == CASE c.res = "read_block" -> Len(c.buf)
                    [] c.res = "read_rest"  -> Len(c.buf) - s.bs
                    [] OTHER                -> Len(c.mac)
     IN  \E k \in Chunks(total, done, avail) :
           LET pos  == c.pos + k
               data == Slice(cin.stream, c.pos, pos)
               full == done + k = total
           IN  cout' =
                 CASE c.res = "read_block" ->
                        IF full
                        THEN Reading(BlockFilled(s, c.off, c.buf \o data, NoSeq, pos),
                                     <<>>, pos)
                        ELSE [c EXCEPT !.buf = c.buf \o data, !.pos = pos]
                   [] c.res = "read_rest" ->
                        IF full
                        THEN Reading(RestFilled(s, c.off, c.buf \o data, NoSeq, c.len,
                                                c.log, pos), <<>>, pos)
                        ELSE [c EXCEPT !.buf = c.buf \o data, !.pos = pos]
                   [] OTHER ->
                        IF full
                        THEN Reading(MacFilled(s, c.off, c.buf, c.mac \o data, NoSeq,
                                               c.len, c.log, pos), c.mac \o data, pos)
                        ELSE [c EXCEPT !.mac = c.mac \o data, !.pos = pos]
  /\ UNCHANGED << cop, cin, framerVars >>

\* A poll_read inside a read_exact returns an error, or no byte because
\* the reader is at its end: from_reader returns Err(Io).  The bytes taken
\* before stay taken, the cipher stays where the call left it.
DeframeIoError ==
  /\ DeframeWaits
  /\ cout' = [cout EXCEPT !.res = "err", !.err = "io"]
  /\ UNCHANGED << cop, cin, framerVars >>

\* The caller drops the call while it is suspended inside a read_exact:
\* the bytes it took from the reader are lost with its buffers.
DeframeDrop ==
  /\ DeframeWaits
  /\ cout' = [cout EXCEPT !.res = "cancelled"]
  /\ UNCHANGED << cop, cin, framerVars >>

\* to_writer up to its first write, on a fresh cipher.
Frame ==
  /\ cop = "idle"
  /\ \E s \in FrameSuites, n \in 0..MaxFrameLen :
       LET payload == PayloadOf(0, 1, n)
           rnd == [i \in 1..255 |-> PadByte(0, 1, i)]
       IN  /\ cin' = [suite |-> s, payload |-> payload]
           /\ cout' = ToWriterSync(s, 0, payload, rnd, NoSeq, "none")
  /\ cop' = "to_writer"
  /\ UNCHANGED framerVars


\* ------------------------------------------------- arch::Bytes and Lengthed
\* lib.rs: the configured maximum.
MAX_SIZE == 65535

\* Longest byte string encoded or decoded, the ones about MAX_SIZE aside.
MaxBlobLen == 3

\* A usize is kept as [hi, lo] too, hi not being bounded by 2^16:
\* value hi * 2^16 + lo.
USize(n) == [hi |-> n \div Half, lo |-> n % Half]

\* z as u32, for a usize z: the narrowing cast keeps the low 32 bits.
AsU32(z) == [hi |-> z.hi % Half, lo |-> z.lo]

\* v as usize > n, for a u32 v and a count n the model can hold.
Exceeds(v, n) == v.hi > n \div Half \/ (v.hi = n \div Half /\ v.lo > n % Half)

\* What a read returns: "ok" with the value and the number of bytes taken
\* from the reader, "err" with the error, or "panic".
Decoded(res, err, val, used) == [res |-> res, err |-> err, val |-> val, used |-> used]

\* What a write returns: "ok" with the bytes written, or "err".
Encoded(res, err, bytes) == [res |-> res, err |-> err, bytes |-> bytes]

\* Bytes::owned and Bytes::borrowed: the two variants of Inner.
Owned(d) == [kind |-> "owned", data |-> d]
Borrowed(d) == [kind |-> "borrowed", data |-> d]

\* Bytes::into_vec: the vector itself, or a copy of the borrowed slice.
IntoVec(v) == IF v.kind = "owned" THEN v.data ELSE [i \in 1..Len(v.data) |-> v.data[i]]

\* AsRef<[u8]> for Bytes: a view of the vector, or the borrowed slice.
AsRef(v) == IF v.kind = "owned" THEN Slice(v.data, 0, Len(v.data)) ELSE v.data

\* bytes.rs:109-111: the length prefix written for a buffer of z bytes.
BytesPrefix(z) == U32BE(AsU32(z))

\* WriteBytes with the length prefix in little-endian order.
WriteBytesLittleEndian(v) ==
  LET buf == AsRef(v)
      p   == BytesPrefix(USize(Len(buf)))
  IN  Encoded("ok", "", << p[4], p[3], p[2], p[1] >> \o buf)

\* BinWrite for Bytes.
WriteBytes(v) ==
  LET buf == AsRef(v)
  IN  Encoded("ok", "", BytesPrefix(USize(Len(buf))) \o buf)

\* ReadBytes that returns the bytes there are, filled up with zeroes, when
\* the reader holds fewer than the length says.
ReadBytesLenient(bytes) ==
  IF Len(bytes) < LenFieldSize THEN Decoded("ok", "", Owned(<<>>), Len(bytes))
  ELSE
    LET size == FromBE(Slice(bytes, 0, LenFieldSize))
        have == Len(bytes) - LenFieldSize
        n    == IF Exceeds(size, have + 8) THEN have + 8 ELSE AsUsize(size)
    IN  Decoded("ok", "",
                Owned([i \in 1..n |-> IF i <= have THEN bytes[LenFieldSize + i] ELSE 0]),
                LenFieldSize + Min(n, have))

\* BinRead for Bytes, from a reader holding bytes: the u32 length, then a
\* vector of that many bytes; a reader that runs out fails the read.  A
\* length field cut short leaves the reader where it was (the integer
\* read restores the position); once the length is read nothing seeks
\* back: when the vector cannot be filled the length field stays taken,
\* and so do the bytes behind it, which the counted read of the vector
\* took before it found the end.
ReadBytes(bytes) ==
  IF Len(bytes) < LenFieldSize THEN Decoded("err", "io", Owned(<<>>), 0)
  ELSE
    LET size == FromBE(Slice(bytes, 0, LenFieldSize))
    IN  IF Exceeds(size, Len(bytes) - LenFieldSize)
        THEN Decoded("err", "io", Owned(<<>>), Len(bytes))
        ELSE Decoded("ok", "",
                     Owned(Slice(bytes, LenFieldSize, LenFieldSize + AsUsize(size))),
                     LenFieldSize + AsUsize(size))

\* lengthed.rs:72-75: the size written in front of a scratch buffer of
\* len bytes.
LengthedPrefix(len) == U32BE(ToU32(Min(len, MAX_SIZE)))

\* BinWrite for Lengthed<T>, given what T wrote to the scratch buffer.
WriteLengthed(inner) ==
  IF inner.res # "ok" THEN inner
  ELSE Encoded("ok", "", LengthedPrefix(Len(inner.bytes)) \o inner.bytes)

\* BinWrite for Lengthed<T> by sizes, for a T that wrote len bytes to the
\* scratch buffer: the prefix, and the number of bytes written after it
\* (write_all writes the whole scratch buffer).
WriteLengthedSized(len) ==
  [res |-> "ok", err |-> "", prefix |-> LengthedPrefix(len), written |-> len]

\* BinRead for Lengthed<Bytes>: the u32 size, a vector of capacity
\* min(size, MAX_SIZE) and of length 0, read_exact into its first len
\* elements, then T read from the vector.
ReadLengthed(bytes) ==
  IF Len(bytes) < LenFieldSize THEN Decoded("err", "io", Owned(<<>>), 0)
  ELSE
    LET size == FromBE(Slice(bytes, 0, LenFieldSize))
        len  == IF size.hi > 0 THEN MAX_SIZE ELSE Min(size.lo, MAX_SIZE)
        buf  == <<>>
    IN  IF len > Len(buf)
        THEN Decoded("panic", "index", Owned(<<>>), LenFieldSize)
        ELSE
          LET t == ReadBytes(buf)
          IN  Decoded(t.res, t.err, t.val, LenFieldSize + len)

\* Lengthed(Bytes) written.
LengthedWrite ==
  /\ cop = "idle"
  /\ \E n \in 0..MaxBlobLen :
       LET v == Owned(PayloadOf(0, 1, n))
       IN  /\ cin' = [value |-> v, inner |-> WriteBytes(v).bytes]
           /\ cout' = WriteLengthed(WriteBytes(v))
  /\ cop' = "lengthed_write"
  /\ UNCHANGED framerVars

\* Sizes of the serialized T about the maximum.
LargeSizes ==
  {MAX_SIZE - 1, MAX_SIZE, MAX_SIZE + 1, MAX_SIZE + 2, 2 * MAX_SIZE, Half * 256}

\* Lengthed(T) written, for a T whose serialized size is about the maximum.
LengthedWriteSized ==
  /\ cop = "idle"
  /\ \E n \in LargeSizes :
       /\ cin' = [len |-> n]
       /\ cout' = WriteLengthedSized(n)
  /\ cop' = "lengthed_write_sized"
  /\ UNCHANGED framerVars

\* The regions a Lengthed<Bytes> is read from: an encoded byte string, or
\* nothing at all.
LengthedRegions ==
  { [value |-> Owned(PayloadOf(0, 1, n)),
     inner |-> WriteBytes(Owned(PayloadOf(0, 1, n))).bytes] : n \in 0..MaxBlobLen }
  \cup { [value |-> Owned(<<>>), inner |-> <<>>] }

\* Lengthed<Bytes> read from a size, a region and extra bytes that the size
\* counts too (none in a well-formed input).
LengthedRead ==
  /\ cop = "idle"
  /\ \E r \in LengthedRegions, extra \in 0..1 :
       /\ cin' = [value |-> r.value, inner |-> r.inner, extra |-> extra,
                  bytes |-> U32BE(ToU32(Len(r.inner) + extra))
                              \o r.inner \o Repeat(0, extra)]
       /\ cout' = ReadLengthed(cin'.bytes)
  /\ cop' = "lengthed_read"
  /\ UNCHANGED framerVars

\* BinWrite for Bytes by sizes, for a buffer of z bytes (z a usize): the
\* prefix, and the number of bytes written after it.
WriteBytesSized(z) ==
  [res |-> "ok", err |-> "", prefix |-> BytesPrefix(z), written |-> z]

\* The byte strings encoded and decoded: both variants, every length.
BlobValues ==
  { Owned(PayloadOf(0, 1, n)) : n \in 0..MaxBlobLen }
  \cup { Borrowed(PayloadOf(0, 1, n)) : n \in 0..MaxBlobLen }

\* Bytes written.
BytesWrite ==
  /\ cop = "idle"
  /\ \E v \in BlobValues :
       /\ cin' = [value |-> v]
       /\ cout' = WriteBytes(v)
  /\ cop' = "bytes_write"
  /\ UNCHANGED framerVars

\* Bytes that follow an encoded byte string in the reader.
Trailer == << 170, 187 >>

\* What Bytes is read from: every prefix of an encoded byte string followed
\* by the trailer, and length fields that declare more than any reader
\* holds.  declared is the length field sent, body what was sent after it.
BytesInputs ==
  UNION { { [value |-> v, declared |-> ToU32(Len(v.data)),
             bytes |-> Slice(WriteBytes(v).bytes \o Trailer, 0, cut),
             body  |-> Slice(WriteBytes(v).bytes \o Trailer,
                             Min(LenFieldSize, cut), cut)] :
              cut \in 0..(Len(WriteBytes(v).bytes) + Len(Trailer)) } :
          v \in BlobValues }
  \cup
  { [value |-> Owned(<<>>), declared |-> d,
     bytes |-> U32BE(d) \o Trailer, body |-> Trailer] :
      d \in { [hi |-> 0, lo |-> 3], [hi |-> 1, lo |-> 0],
              [hi |-> Half - 1, lo |-> Half - 1] } }

\* Bytes read.
BytesRead ==
  /\ cop = "idle"
  /\ \E in \in BytesInputs :
       /\ cin' = in
       /\ cout' = ReadBytes(in.bytes)
  /\ cop' = "bytes_read"
  /\ UNCHANGED framerVars

\* Buffer lengths about the range of the length field: u32::MAX, 2^32 and
\* more.
HugeSizes ==
  { [hi |-> 0, lo |-> 5], [hi |-> Half - 1, lo |-> Half - 1],
    [hi |-> Half, lo |-> 0], [hi |-> Half, lo |-> 5], [hi |-> 3 * Half, lo |-> 7] }

\* Bytes written, for a buffer whose length is about the range of the
\* length field.
BytesWriteSized ==
  /\ cop = "idle"
  /\ \E z \in HugeSizes :
       /\ cin' = [len |-> z]
       /\ cout' = WriteBytesSized(z)
  /\ cop' = "bytes_write_sized"
  /\ UNCHANGED framerVars

\* --------------------------------------------------- discriminated dispatch
\* A field of a message or of a variant: its name and its wire kind, "u32",
\* "bool", "bytes", "ascii" or "utf8".
F(n, k) == [n |-> n, k |-> k, of |-> "", ref |-> 0]

\* #[bw(calc = Bool::from(x.is_some()))]: a boolean that is written from
\* the optional field at position ref and is not a field of the value.
Flag(n, ref) == [n |-> n, k |-> "flag", of |-> "", ref |-> ref]

\* #[br(if(*flag))]: an optional field of kind of, read when the boolean at
\* position ref was true.  Its value is <<>> or << v >>.
Opt(n, of, ref) == [n |-> n, k |-> "opt", of |-> of, ref |-> ref]

\* What the value holds in the place of a calculated field.
Calc == "calc"

\* Bool: written as 0x00 or 0x01, any non-zero byte read as true.
WriteBool(b) == << IF b THEN 1 ELSE 0 >>

IsAscii(s) == \A i \in 1..Len(s) : s[i] < 128

\* Continuation byte of a UTF-8 sequence.
Cont(b) == b >= 128 /\ b <= 191

\* std::str::from_utf8(s).is_ok(), from byte i on.
RECURSIVE IsUtf8From(_, _)
IsUtf8From(s, i) ==
  IF i > Len(s) THEN TRUE
  ELSE
    LET b  == s[i]
        at(j) == IF i + j <= Len(s) THEN s[i + j] ELSE 0
    IN  IF b < 128 THEN IsUtf8From(s, i + 1)
        ELSE IF b >= 194 /\ b <= 223
        THEN Cont(at(1)) /\ IsUtf8From(s, i + 2)
        ELSE IF b >= 224 /\ b <= 239
        THEN /\ Cont(at(1)) /\ Cont(at(2))
             /\ (b = 224 => at(1) >= 160)
             /\ (b = 237 => at(1) <= 159)
             /\ IsUtf8From(s, i + 3)
        ELSE IF b >= 240 /\ b <= 244
        THEN /\ Cont(at(1)) /\ Cont(at(2)) /\ Cont(at(3))
             /\ (b = 240 => at(1) >= 144)
             /\ (b = 244 => at(1) <= 143)
             /\ IsUtf8From(s, i + 4)
        ELSE FALSE

IsUtf8(s) == IsUtf8From(s, 1)

\* One field written.
WriteField(k, v) ==
  CASE k = "u32"  -> U32BE(v)
    [] k = "bool" -> WriteBool(v)
    [] OTHER      -> WriteBytes(Owned(v)).bytes

\* The fields of layout written in order, from the i-th on.
RECURSIVE WriteFields(_, _, _)
WriteFields(layout, vals, i) ==
  IF i > Len(layout) THEN <<>>
  ELSE
    LET f == layout[i]
        b == CASE f.k = "flag" -> WriteBool(vals[f.ref] # <<>>)
               [] f.k = "opt"  -> IF vals[i] = <<>> THEN <<>>
                                  ELSE WriteField(f.of, vals[i][1])
               [] OTHER        -> WriteField(f.k, vals[i])
    IN  b \o WriteFields(layout, vals, i + 1)

\* One field read from bytes at offset pos: [ok, err, val, pos].
ReadField(k, bytes, pos) ==
  LET left == Len(bytes) - pos
      bad(e) == [ok |-> FALSE, err |-> e, val |-> <<>>, pos |-> pos]
  IN  CASE k = "u32" ->
             IF left < 4 THEN bad("io")
             ELSE [ok |-> TRUE, err |-> "", val |-> FromBE(Slice(bytes, pos, pos + 4)),
                   pos |-> pos + 4]
        [] k = "bool" ->
             IF left < 1 THEN bad("io")
             ELSE [ok |-> TRUE, err |-> "", val |-> bytes[pos + 1] # 0, pos |-> pos + 1]
        [] OTHER ->
             LET r == ReadBytes(Slice(bytes, pos, Len(bytes)))
             IN  IF r.res # "ok" THEN bad(r.err)
                 ELSE IF k = "ascii" /\ ~IsAscii(r.val.data) THEN bad("constraint")
                 ELSE IF k = "utf8" /\ ~IsUtf8(r.val.data) THEN bad("constraint")
                 ELSE [ok |-> TRUE, err |-> "", val |-> r.val.data, pos |-> pos + r.used]

\* An entry of the record of what a read parsed: the part of the message
\* ("magic", "pre", "kind", "mid" or the variant's name) and the field.
Parsed(part, n) == [part |-> part, n |-> n]

\* The fields of layout read in order, from the i-th on:
\* [ok, err, vals, pos, log].  A calculated boolean is kept while the
\* fields are read and is not part of the value returned.
RECURSIVE ReadFields(_, _, _, _, _, _, _)
ReadFields(layout, part, bytes, pos, i, vals, log) ==
  IF i > Len(layout)
  THEN [ok |-> TRUE, err |-> "",
        vals |-> [j \in 1..Len(layout) |->
                    IF layout[j].k = "flag" THEN Calc ELSE vals[j]],
        pos |-> pos, log |-> log]
  ELSE
    LET f == layout[i]
    IN  IF f.k = "opt" /\ ~vals[f.ref]
        THEN ReadFields(layout, part, bytes, pos, i + 1, Append(vals, <<>>), log)
        ELSE
          LET k == IF f.k = "opt" THEN f.of ELSE IF f.k = "flag" THEN "bool" ELSE f.k
              r == ReadField(k, bytes, pos)
              v == IF f.k = "opt" THEN << r.val >> ELSE r.val
              l == Append(log, Parsed(part, f.n))
          IN  IF ~r.ok
              THEN [ok |-> FALSE, err |-> r.err, vals |-> <<>>, pos |-> r.pos, log |-> l]
              ELSE ReadFields(layout, part, bytes, r.pos, i + 1, Append(vals, v), l)

\* A value of message m: the fields before and after the tag, the variant
\* of the context and its fields.  The tag is not part of it.
Message(m, pre, mid, variant, ctx) ==
  [msg |-> m.name, pre |-> pre, mid |-> mid, variant |-> variant, ctx |-> ctx]

\* as_ascii with every variant given the tag of the first one declared.
AsAsciiOfFirst(m, variant) == m.as_ascii[m.order[1]]

\* Context::as_ascii: the tag of a variant.
AsAscii(m, variant) == m.as_ascii[variant]

\* BinWrite of a tagged message: magic, the fields in front, the tag
\* calculated from the context, the fields behind it, the context.
WriteMessage(m, v) ==
  Encoded("ok", "",
          << m.magic >>
            \o WriteFields(m.pre, v.pre, 1)
            \o WriteField("ascii", AsAscii(m, v.variant))
            \o WriteFields(m.mid, v.mid, 1)
            \o WriteFields(m.fields[v.variant], v.ctx, 1))

\* What the read of a tagged message returns.
Dispatched(res, err, val, used, log) ==
  [res |-> res, err |-> err, val |-> val, used |-> used, log |-> log]

NoMessage == <<>>

\* The variants of the context enum of message m.
Variants(m) == { m.order[i] : i \in 1..Len(m.order) }

\* A pre_assert that compares only the first four bytes of the tag.
PreAssertOnPrefix(m, kind, v) ==
  Slice(kind, 0, Min(4, Len(kind))) = Slice(AsAscii(m, v), 0, Min(4, Len(AsAscii(m, v))))

\* #[br(pre_assert(kind == Context::TAG))] of variant v: the tag read is
\* the constant that as_ascii returns for the variant.
PreAssert(m, kind, v) == kind = AsAscii(m, v)

\* ReadContext that, when no tag matches, goes on with the first variant.
RECURSIVE ReadContextOrFirst(_, _, _, _, _, _)
ReadContextOrFirst(m, kind, bytes, pos, i, log) ==
  LET v == IF i > Len(m.order) THEN m.order[1] ELSE m.order[i]
      r == ReadFields(m.fields[v], v, bytes, pos, 1, <<>>, log)
  IN  IF i <= Len(m.order) /\ kind # m.as_ascii[v]
      THEN ReadContextOrFirst(m, kind, bytes, pos, i + 1, log)
      ELSE IF r.ok
      THEN [ok |-> TRUE, err |-> "", variant |-> v, vals |-> r.vals, pos |-> r.pos,
            log |-> r.log]
      ELSE [ok |-> FALSE, err |-> "no_variant", variant |-> "", vals |-> <<>>,
            pos |-> pos, log |-> r.log]

\* BinRead of the context enum, given the tag read before: the variants
\* are gone through in the order of their declaration, from the i-th on; a
\* variant whose pre_assert fails reads nothing; the first variant that
\* reads whole is returned; when none is, the read fails with the errors
\* of all variants.  [ok, err, variant, vals, pos, log]
RECURSIVE ReadContext(_, _, _, _, _, _)
ReadContext(m, kind, bytes, pos, i, log) ==
  IF i > Len(m.order)
  THEN [ok |-> FALSE, err |-> "no_variant", variant |-> "", vals |-> <<>>,
        pos |-> pos, log |-> log]
  ELSE
    LET v == m.order[i]
    IN  IF ~PreAssert(m, kind, v)
        THEN ReadContext(m, kind, bytes, pos, i + 1, log)
        ELSE
          LET r == ReadFields(m.fields[v], v, bytes, pos, 1, <<>>, log)
          IN  IF r.ok
              THEN [ok |-> TRUE, err |-> "", variant |-> v, vals |-> r.vals,
                    pos |-> r.pos, log |-> r.log]
              ELSE ReadContext(m, kind, bytes, pos, i + 1, r.log)

\* BinRead of a tagged message: magic, the fields in front, the tag, the
\* fields behind it, then the context selected by the tag.  On an error
\* the reader is put back where the message began.
ReadMessage(m, bytes) ==
  IF Len(bytes) < 1 THEN Dispatched("err", "io", NoMessage, 0, <<>>)
  ELSE IF bytes[1] # m.magic
  THEN Dispatched("err", "bad_magic", NoMessage, 0, << Parsed("magic", "magic") >>)
  ELSE
    LET p == ReadFields(m.pre, "pre", bytes, 1, 1, <<>>, << Parsed("magic", "magic") >>)
    IN  IF ~p.ok THEN Dispatched("err", p.err, NoMessage, 0, p.log)
        ELSE
          LET t  == ReadField("ascii", bytes, p.pos)
              tl == Append(p.log, Parsed("kind", "kind"))
          IN  IF ~t.ok THEN Dispatched("err", t.err, NoMessage, 0, tl)
              ELSE
                LET q == ReadFields(m.mid, "mid", bytes, t.pos, 1, <<>>, tl)
                IN  IF ~q.ok THEN Dispatched("err", q.err, NoMessage, 0, q.log)
                    ELSE
                      LET c == ReadContext(m, t.val, bytes, q.pos, 1, q.log)
                      IN  IF ~c.ok
                          THEN Dispatched("err", c.err, NoMessage, 0, c.log)
                          ELSE Dispatched("ok", "",
                                          Message(m, p.vals, q.vals, c.variant, c.vals),
                                          c.pos, c.log)

\* GlobalRequest and GlobalRequestContext: the message's magic byte, its fields before
\* and after the tag, the variants in the order of their declaration,
\* as_ascii and the fields of each variant.
GlobalRequest ==
  [name  |-> "GlobalRequest",
   magic |-> 80,
   pre   |-> << >>,
   mid   |-> << F("want_reply", "bool") >>,
   order |-> << "TcpipForward", "CancelTcpipForward" >>,
   as_ascii |->
     [ TcpipForward |-> << 116, 99, 112, 105, 112, 45, 102, 111, 114, 119, 97, 114, 100 >>,  \* "tcpip-forward"
       CancelTcpipForward |-> << 99, 97, 110, 99, 101, 108, 45, 116, 99, 112, 105, 112, 45, 102, 111, 114, 119, 97, 114, 100 >> ],  \* "cancel-tcpip-forward"
   fields |->
     [ TcpipForward |-> << F("bind_address", "bytes"),
                             F("bind_port", "u32") >>,
       CancelTcpipForward |-> << F("bind_address", "bytes"),
                                   F("bind_port", "u32") >> ] ]

\* ChannelOpen and ChannelOpenContext: the message's magic byte, its fields before
\* and after the tag, the variants in the order of their declaration,
\* as_ascii and the fields of each variant.
ChannelOpen ==
  [name  |-> "ChannelOpen",
   magic |-> 90,
   pre   |-> << >>,
   mid   |-> << F("sender_channel", "u32"),
               F("initial_window_size", "u32"),
               F("maximum_packet_size", "u32") >>,
   order |-> << "Session", "X11", "ForwardedTcpip", "DirectTcpip" >>,
   as_ascii |->
     [ Session |-> << 115, 101, 115, 115, 105, 111, 110 >>,  \* "session"
       X11 |-> << 120, 49, 49 >>,  \* "x11"
       ForwardedTcpip |-> << 102, 111, 114, 119, 97, 114, 100, 101, 100, 45, 116, 99, 112, 105, 112 >>,  \* "forwarded-tcpip"
       DirectTcpip |-> << 100, 105, 114, 101, 99, 116, 45, 116, 99, 112, 105, 112 >> ],  \* "direct-tcpip"
   fields |->
     [ Session |-> << >>,
       X11 |-> << F("originator_address", "ascii"),
                    F("originator_port", "u32") >>,
       ForwardedTcpip |-> << F("address", "ascii"),
                               F("port", "u32"),
                               F("originator_address", "ascii"),
                               F("originator_port", "u32") >>,
       DirectTcpip |-> << F("address", "ascii"),
                            F("port", "u32"),
                            F("originator_address", "ascii"),
                            F("originator_port", "u32") >> ] ]

\* ChannelRequest and ChannelRequestContext: the message's magic byte, its fields before
\* and after the tag, the variants in the order of their declaration,
\* as_ascii and the fields of each variant.
ChannelRequest ==
  [name  |-> "ChannelRequest",
   magic |-> 98,
   pre   |-> << F("recipient_channel", "u32") >>,
   mid   |-> << F("want_reply", "bool") >>,
   order |-> << "Pty", "X11", "Env", "Shell", "Exec", "Subsystem", "WindowChange", "XonXoff", "Signal", "ExitStatus", "ExitSignal" >>,
   as_ascii |->
     [ Pty |-> << 112, 116, 121, 45, 114, 101, 113 >>,  \* "pty-req"
       X11 |-> << 120, 49, 49, 45, 114, 101, 113 >>,  \* "x11-req"
       Env |-> << 101, 110, 118 >>,  \* "env"
       Shell |-> << 115, 104, 101, 108, 108 >>,  \* "shell"
       Exec |-> << 101, 120, 101, 99 >>,  \* "exec"
       Subsystem |-> << 115, 117, 98, 115, 121, 115, 116, 101, 109 >>,  \* "subsystem"
       WindowChange |-> << 119, 105, 110, 100, 111, 119, 45, 99, 104, 97, 110, 103, 101 >>,  \* "window-change"
       XonXoff |-> << 120, 111, 110, 45, 120, 111, 102, 102 >>,  \* "xon-xoff"
       Signal |-> << 115, 105, 103, 110, 97, 108 >>,  \* "signal"
       ExitStatus |-> << 101, 120, 105, 116, 45, 115, 116, 97, 116, 117, 115 >>,  \* "exit-status"
       ExitSignal |-> << 101, 120, 105, 116, 45, 115, 105, 103, 110, 97, 108 >> ],  \* "exit-signal"
   fields |->
     [ Pty |-> << F("term", "bytes"),
                    F("width_chars", "u32"),
                    F("height_chars", "u32"),
                    F("width_pixels", "u32"),
                    F("height_pixels", "u32"),
                    F("modes", "bytes") >>,
       X11 |-> << F("single_connection", "bool"),
                    F("x11_authentication_protocol", "bytes"),
                    F("x11_authentication_cookie", "bytes"),
                    F("x11_screen_number", "u32") >>,
       Env |-> << F("name", "bytes"),
                    F("value", "bytes") >>,
       Shell |-> << >>,
       Exec |-> << F("command", "bytes") >>,
       Subsystem |-> << F("name", "bytes") >>,
       WindowChange |-> << F("width_chars", "u32"),
                             F("height_chars", "u32"),
                             F("width_pixels", "u32"),
                             F("height_pixels", "u32") >>,
       XonXoff |-> << F("client_can_do", "bool") >>,
       Signal |-> << F("name", "bytes") >>,
       ExitStatus |-> << F("code", "u32") >>,
       ExitSignal |-> << F("name", "bytes"),
                           F("core_dumped", "bool"),
                           F("error_message", "utf8"),
                           F("language", "ascii") >> ] ]

\* Request and Method: the message's magic byte, its fields before
\* and after the tag, the variants in the order of their declaration,
\* as_ascii and the fields of each variant.
Request ==
  [name  |-> "Request",
   magic |-> 50,
   pre   |-> << F("username", "utf8"),
               F("service_name", "ascii") >>,
   mid   |-> << >>,
   order |-> << "None", "Publickey", "Password", "Hostbased", "KeyboardInteractive" >>,
   as_ascii |->
     [ None |-> << 110, 111, 110, 101 >>,  \* "none"
       Publickey |-> << 112, 117, 98, 108, 105, 99, 107, 101, 121 >>,  \* "publickey"
       Password |-> << 112, 97, 115, 115, 119, 111, 114, 100 >>,  \* "password"
       Hostbased |-> << 104, 111, 115, 116, 98, 97, 115, 101, 100 >>,  \* "hostbased"
       KeyboardInteractive |-> << 107, 101, 121, 98, 111, 97, 114, 100, 45, 105, 110, 116, 101, 114, 97, 99, 116, 105, 118, 101 >> ],  \* "keyboard-interactive"
   fields |->
     [ None |-> << >>,
       Publickey |-> << Flag("signed", 4),
                          F("algorithm", "bytes"),
                          F("blob", "bytes"),
                          Opt("signature", "bytes", 1) >>,
       Password |-> << Flag("change", 3),
                         F("password", "utf8"),
                         Opt("new", "utf8", 1) >>,
       Hostbased |-> << F("algorithm", "bytes"),
                          F("host_key", "bytes"),
                          F("client_fqdn", "ascii"),
                          F("username", "utf8"),
                          F("signature", "bytes") >>,
       KeyboardInteractive |-> << F("language", "ascii"),
                                    F("submethods", "utf8") >> ] ]

MessageNames == {"GlobalRequest", "ChannelOpen", "ChannelRequest", "Request"}

MessageOf(name) ==
  CASE name = "GlobalRequest"  -> GlobalRequest
    [] name = "ChannelOpen"    -> ChannelOpen
    [] name = "ChannelRequest" -> ChannelRequest
    [] name = "Request"        -> Request

\* The value given to the field at position i of a layout, in the sd-th
\* example of a message.
Sample(f, sd, i) ==
  CASE f.k = "u32"   -> [hi |-> 4660 * sd, lo |-> 7 * i + sd]
    [] f.k = "bool"  -> sd = 1
    [] f.k = "bytes" -> PayloadOf(171 * sd, i, (i + sd) % (MaxBlobLen + 1))
    [] f.k = "ascii" -> << 97 + i, 45, 48 + sd >>
    [] f.k = "utf8"  -> IF sd = 1 THEN << 104, 195, 169 >> ELSE << 111, 107 >>
    [] f.k = "flag"  -> Calc
    [] f.k = "opt"   -> IF sd = 1 THEN << << 111, 107 >> >> ELSE <<>>

Samples(layout, sd) == [i \in 1..Len(layout) |-> Sample(layout[i], sd, i)]

\* Two examples of every variant of every message.
MessageValues ==
  UNION { { Message(MessageOf(n), Samples(MessageOf(n).pre, sd),
                    Samples(MessageOf(n).mid, sd), MessageOf(n).order[j],
                    Samples(MessageOf(n).fields[MessageOf(n).order[j]], sd)) :
              j \in 1..Len(MessageOf(n).order), sd \in {0, 1} } :
          n \in MessageNames }

\* A tagged message written.
TaggedWrite ==
  /\ cop = "idle"
  /\ \E v \in MessageValues :
       /\ cin' = [value |-> v]
       /\ cout' = WriteMessage(MessageOf(v.msg), v)
  /\ cop' = "tagged_write"
  /\ UNCHANGED framerVars

\* The bytes a peer sends for value v of message m when it announces the
\* context with tag; cut: the message ends right behind the tag.
Wire(m, v, tag, cut) ==
  << m.magic >>
    \o WriteFields(m.pre, v.pre, 1)
    \o WriteBytes(Owned(tag)).bytes
    \o (IF cut THEN <<>>
        ELSE WriteFields(m.mid, v.mid, 1) \o WriteFields(m.fields[v.variant], v.ctx, 1))

\* The variant declared after variant, the first one after the last.
NextVariant(m, variant) ==
  LET j == CHOOSE i \in 1..Len(m.order) : m.order[i] = variant
  IN  m.order[(j % Len(m.order)) + 1]

\* Tags that message m does not register: the empty one, one no message
\* knows, a registered one cut short, a registered one with a byte more,
\* and one that another message registers ("x11" and "x11-req").
UnknownTags(m) ==
  LET t == m.as_ascii[m.order[1]]
  IN  { <<>>, << 98, 111, 103, 117, 115 >>, Slice(t, 0, Len(t) - 1), t \o << 115 >>,
        IF m.name = "ChannelOpen" THEN ChannelRequest.as_ascii["X11"]
                                  ELSE ChannelOpen.as_ascii["X11"] }

\* What a tagged message is read from: what WriteMessage wrote ("encoded"),
\* the fields of one variant behind the tag of the next ("crossed"), and
\* a tag that is not registered ("unknown"), with or without bytes behind.
TaggedInputs ==
  { [msg |-> v.msg, kind |-> "encoded", tag |-> MessageOf(v.msg).as_ascii[v.variant],
     value |-> v, cut |-> FALSE,
     bytes |-> WriteMessage(MessageOf(v.msg), v).bytes] : v \in MessageValues }
  \cup
  { [msg |-> v.msg, kind |-> "crossed",
     tag |-> MessageOf(v.msg).as_ascii[NextVariant(MessageOf(v.msg), v.variant)],
     value |-> v, cut |-> FALSE,
     bytes |-> Wire(MessageOf(v.msg), v,
                    MessageOf(v.msg).as_ascii[NextVariant(MessageOf(v.msg), v.variant)],
                    FALSE)] : v \in MessageValues }
  \cup
  UNION { { [msg |-> v.msg, kind |-> "unknown", tag |-> t, value |-> v, cut |-> c,
             bytes |-> Wire(MessageOf(v.msg), v, t, c)] :
              t \in UnknownTags(MessageOf(v.msg)), c \in BOOLEAN } :
          v \in { w \in MessageValues : w.variant = MessageOf(w.msg).order[2] } }

\* A tagged message read.
TaggedRead ==
  /\ cop = "idle"
  /\ \E in \in TaggedInputs :
       /\ cin' = in
       /\ cout' = ReadMessage(MessageOf(in.msg), in.bytes)
  /\ cop' = "tagged_read"
  /\ UNCHANGED framerVars

\* ------------------------------------------------- StringUtf8, StringAscii
\* BinRead for StringUtf8 that hands out any content unchecked.
ReadStringUtf8Unchecked(bytes) == ReadBytes(bytes)

\* BinRead for StringUtf8: the inner Bytes, then
\* assert(std::str::from_utf8(self_0.deref()).is_ok()).  The derived
\* read seeks back to where it began when it fails, whatever failed.
ReadStringUtf8(bytes) ==
  LET r == ReadBytes(bytes)
  IN  IF r.res # "ok" THEN Decoded(r.res, r.err, r.val, 0)
      ELSE IF ~IsUtf8(AsRef(r.val)) THEN Decoded("err", "assert", Owned(<<>>), 0)
      ELSE r

\* BinRead for StringAscii: the inner StringUtf8, then
\* assert(self_0.is_ascii()).
ReadStringAscii(bytes) ==
  LET r == ReadStringUtf8(bytes)
  IN  IF r.res # "ok" THEN r
      ELSE IF ~IsAscii(AsRef(r.val)) THEN Decoded("err", "assert", Owned(<<>>), 0)
      ELSE r

\* BinWrite for StringUtf8: the assertion, then the inner Bytes.
WriteStringUtf8(v) ==
  IF ~IsUtf8(AsRef(v)) THEN Encoded("err", "assert", <<>>) ELSE WriteBytes(v)

\* Contents of strings: every sequence of up to two of a few bytes (ASCII,
\* continuation, lead and illegal bytes), and longer sequences, well
\* formed (three and four bytes) and not (overlong, surrogate, beyond
\* U+10FFFF, cut short).
StringContents ==
  LET A == {65, 127, 128, 192, 195, 169, 255}
  IN  {<<>>} \cup { << a >> : a \in A } \cup { << a, b >> : a \in A, b \in A }
        \cup { << 226, 130, 172 >>, << 240, 159, 146, 150 >>, << 104, 195, 169, 33 >>,
               << 224, 128, 128 >>, << 237, 160, 128 >>, << 244, 144, 128, 128 >>,
               << 226, 130 >>, << 65, 240, 159, 146 >> }

\* StringUtf8::new(s) written, for every valid UTF-8 string s.
StringWrite ==
  /\ cop = "idle"
  /\ \E s \in { c \in StringContents : IsUtf8(c) } :
       /\ cin' = [s |-> s]
       /\ cout' = WriteStringUtf8(Owned(s))
  /\ cop' = "string_write"
  /\ UNCHANGED framerVars

\* A StringUtf8 or a StringAscii read from a length-prefixed byte string
\* with the given content, followed by further bytes.
StringRead ==
  /\ cop = "idle"
  /\ \E c \in StringContents, t \in {"StringUtf8", "StringAscii"} :
       /\ cin' = [type |-> t, content |-> c,
                  bytes |-> WriteBytes(Owned(c)).bytes \o Trailer]
       /\ cout' = IF t = "StringUtf8"
                  THEN ReadStringUtf8(WriteBytes(Owned(c)).bytes \o Trailer)
                  ELSE ReadStringAscii(WriteBytes(Owned(c)).bytes \o Trailer)
  /\ cop' = "string_read"
  /\ UNCHANGED framerVars

\* ---------------------------------------------------- the exchange hash
\* BinWrite for trans::KexInit: magic 20, the 16 bytes of the cookie, the
\* ten name-lists (each a byte string holding the comma-joined names),
\* first_kex_packet_follows, and the reserved u32, calculated as 0.
WriteKexInit(k) ==
  LET RECURSIVE Lists(_)
      Lists(i) == IF i > Len(k.lists) THEN <<>>
                  ELSE WriteBytes(Owned(k.lists[i])).bytes \o Lists(i + 1)
  IN  Encoded("ok", "",
              << 20 >> \o k.cookie \o Lists(1)
                \o WriteBool(k.first_kex_packet_follows) \o U32BE(ToU32(0)))

\* BinWrite for kex::Ecdh: v_c, v_s, i_c, i_s, k_s, q_c, q_s, k in the
\* order of their declaration; i_c and i_s are Lengthed, the others byte
\* strings (k an mpint, a byte string holding the integer's bytes).
WriteEcdh(e) ==
  Encoded("ok", "",
          WriteBytes(e.v_c).bytes \o WriteBytes(e.v_s).bytes
            \o WriteLengthed(WriteKexInit(e.i_c)).bytes
            \o WriteLengthed(WriteKexInit(e.i_s)).bytes
            \o WriteBytes(e.k_s).bytes \o WriteBytes(e.q_c).bytes
            \o WriteBytes(e.q_s).bytes \o WriteBytes(Owned(e.k)).bytes)

\* D::digest: a digest that tells any two inputs apart.
Digest(bytes) == << "digest", bytes >>

\* Ecdh::hash: the structure written to a fresh buffer, the buffer digested.
EcdhHash(e) == Digest(WriteEcdh(e).bytes)

\* A KexInit with the given cookie byte and names in its ten lists.
KexInitOf(c, names, follows) ==
  [cookie |-> Repeat(c, 16),
   lists |-> [i \in 1..10 |-> IF i % 2 = 1 THEN names ELSE <<>>],
   first_kex_packet_follows |-> follows]

\* An exchange written and hashed: identification strings, the two
\* negotiation payloads, host key, ephemeral keys and shared secret.
EcdhWrite ==
  /\ cop = "idle"
  /\ \E a \in {<< 83, 83, 72 >>, << 83 >>}, n \in {<<>>, << 122, 44, 110 >>},
        f \in BOOLEAN, q \in {<< 4 >>, << 4, 9 >>}, s \in {<< 0 >>, << 0, 200, 1 >>} :
       LET e == [v_c |-> Borrowed(a), v_s |-> Borrowed(<< 83, 50 >>),
                 i_c |-> KexInitOf(17, n, f), i_s |-> KexInitOf(34, << 110 >>, FALSE),
                 k_s |-> Owned(<< 7, 7 >>), q_c |-> Owned(q),
                 q_s |-> Owned(<< 5 >>), k |-> s]
       IN  /\ cin' = [value |-> e]
           /\ cout' = [res |-> WriteEcdh(e).res, bytes |-> WriteEcdh(e).bytes,
                       hash |-> EcdhHash(e)]
  /\ cop' = "ecdh_write"
  /\ UNCHANGED framerVars

\* An exchange written whose client KexInit serializes to a size about the
\* maximum (long name-lists): what is written for i_c.
EcdhWriteSized ==
  /\ cop = "idle"
  /\ \E n \in LargeSizes :
       /\ cin' = [i_c_len |-> n]
       /\ cout' = [res |-> "ok", i_c |-> WriteLengthedSized(n)]
  /\ cop' = "ecdh_write_sized"
  /\ UNCHANGED framerVars

\* ---------------------------------------------- the identification string
\* Text is a sequence of characters; 'S' is 83, 'H' 72, '-' 45, ' ' 32,
\* CR 13, LF 10.  An optional text is <<>> (None) or << text >> (Some).

\* Display for Id that writes the comments without the space in front.
IdFmtNoSpace(id) ==
  << 83, 83, 72, 45 >> \o id.protoversion \o << 45 >> \o id.softwareversion
    \o (IF id.comments = <<>> THEN <<>> ELSE id.comments[1])

\* Display for Id: "SSH-{protoversion}-{softwareversion}", then
\* " {comments}" when there are comments.
IdFmt(id) ==
  << 83, 83, 72, 45 >> \o id.protoversion \o << 45 >> \o id.softwareversion
    \o (IF id.comments = <<>> THEN <<>> ELSE << 32 >> \o id.comments[1])

\* from_str that takes the comments from the last space on.
IdFromStrLastSpace(s) ==
  LET First(t, c) == IF \E i \in 1..Len(t) : t[i] = c
                     THEN CHOOSE i \in 1..Len(t) : t[i] = c /\ \A j \in 1..(i - 1) : t[j] # c
                     ELSE 0
      Last(t, c)  == IF \E i \in 1..Len(t) : t[i] = c
                     THEN CHOOSE i \in 1..Len(t) : t[i] = c /\ \A j \in (i + 1)..Len(t) : t[j] # c
                     ELSE 0
      sp   == Last(s, 32)
      id   == IF sp = 0 THEN s ELSE Slice(s, 0, sp - 1)
      comments == IF sp = 0 THEN <<>> ELSE << Slice(s, sp, Len(s)) >>
      d1   == First(id, 45)
      rest == Slice(id, d1, Len(id))
      d2   == First(rest, 45)
  IN  IF d1 # 0 /\ d2 # 0 /\ Slice(id, 0, d1 - 1) = << 83, 83, 72 >>
         /\ d2 > 1 /\ d2 < Len(rest)
      THEN [res |-> "ok", err |-> "",
            val |-> [protoversion |-> Slice(rest, 0, d2 - 1),
                     softwareversion |-> Slice(rest, d2, Len(rest)),
                     comments |-> comments]]
      ELSE [res |-> "err", err |-> "format", val |-> <<>>]

\* Id::from_str: s.split_once(' ') gives the identifier and the comments;
\* id.splitn(3, '-') must give "SSH", a protoversion and a softwareversion
\* that are not empty; anything else is ParseError::Format.
IdFromStr(s) ==
  LET First(t, c) == IF \E i \in 1..Len(t) : t[i] = c
                     THEN CHOOSE i \in 1..Len(t) : t[i] = c /\ \A j \in 1..(i - 1) : t[j] # c
                     ELSE 0
      sp   == First(s, 32)
      id   == IF sp = 0 THEN s ELSE Slice(s, 0, sp - 1)
      comments == IF sp = 0 THEN <<>> ELSE << Slice(s, sp, Len(s)) >>
      d1   == First(id, 45)
      rest == Slice(id, d1, Len(id))
      d2   == First(rest, 45)
  IN  IF d1 # 0 /\ d2 # 0 /\ Slice(id, 0, d1 - 1) = << 83, 83, 72 >>
         /\ d2 > 1 /\ d2 < Len(rest)
      THEN [res |-> "ok", err |-> "",
            val |-> [protoversion |-> Slice(rest, 0, d2 - 1),
                     softwareversion |-> Slice(rest, d2, Len(rest)),
                     comments |-> comments]]
      ELSE [res |-> "err", err |-> "format", val |-> <<>>]

\* Id values: the fields are public strings, so any text can be in them.
IdValues ==
  [protoversion : {<< 50, 46, 48 >>, << 49 >>, <<>>, << 50, 45, 48 >>, << 50, 32, 48 >>},
   softwareversion : {<< 120 >>, << 120, 45, 121 >>, <<>>, << 120, 32, 121 >>, << 120, 10 >>},
   comments : {<<>>, << <<>> >>, << << 99 >> >>, << << 99, 32, 100, 45, 101 >> >>,
               << << 99, 10, 83, 83, 72 >> >>, << << 99, 13 >> >>}]

\* id.to_string().parse(), as in it_reparses_consistently.
IdReparse ==
  /\ cop = "idle"
  /\ \E id \in IdValues :
       /\ cin' = [id |-> id]
       /\ cout' = IdFromStr(IdFmt(id))
  /\ cop' = "id_reparse"
  /\ UNCHANGED framerVars

\* Id::from_str applied to a text: a head, the two '-' present or not
\* around a protoversion, a softwareversion, and what follows it.
IdParse ==
  /\ cop = "idle"
  /\ \E head \in {<< 83, 83, 72 >>, << 70, 79, 79 >>, <<>>, << 83, 83, 72, 120 >>},
        d1 \in {<< 45 >>, <<>>}, p \in {<<>>, << 50, 46, 48 >>, << 50, 32, 48 >>},
        d2 \in {<< 45 >>, <<>>}, s \in {<<>>, << 120 >>, << 120, 45, 121 >>},
        tail \in {<<>>, << 32 >>, << 32, 99 >>, << 32, 99, 32, 100 >>, << 32, 32 >>} :
       /\ cin' = [text |-> head \o d1 \o p \o d2 \o s \o tail]
       /\ cout' = IdFromStr(head \o d1 \o p \o d2 \o s \o tail)
  /\ cop' = "id_parse"
  /\ UNCHANGED framerVars

\* Id::to_writer in progress or returned.  res names the write_all the
\* call is in ("write_text", line 95; "write_crlf", line 96) or is "ok",
\* "err" or "cancelled"; bytes are those the writer has accepted, done
\* the number of them that belong to the current write_all.
IdWriting(res, err, bytes, done) ==
  [res |-> res, err |-> err, bytes |-> bytes, done |-> done]

\* Id::to_writer is called: to_string() as bytes is handed to write_all.
\* The texts here hold ASCII characters only, whose UTF-8 encoding is the
\* character's code, and to_string() is never empty.
IdWrite ==
  /\ cop = "idle"
  /\ \E id \in IdValues : cin' = [id |-> id]
  /\ cout' = IdWriting("write_text", "", <<>>, 0)
  /\ cop' = "id_write"
  /\ UNCHANGED framerVars

\* to_writer is inside one of its two write_all.
IdWriteWaits == cop = "id_write" /\ cout.res \in {"write_text", "write_crlf"}

\* One poll_write inside a write_all of to_writer: the writer accepts some
\* of the bytes left; after the last byte of the text the call goes on to
\* write_all(b"\r\n"), after the LF it returns Ok(()).
IdWritePoll ==
  /\ IdWriteWaits
  /\ LET buf == IF cout.res = "write_text" THEN IdFmt(cin.id) ELSE << 13, 10 >>
     IN  \E k \in Chunks(Len(buf), cout.done, Len(buf)) :
           LET bytes == cout.bytes \o Slice(buf, cout.done, cout.done + k)
           IN  cout' = IF cout.done + k < Len(buf)
                       THEN IdWriting(cout.res, "", bytes, cout.done + k)
                       ELSE IF cout.res = "write_text"
                       THEN IdWriting("write_crlf", "", bytes, 0)
                       ELSE IdWriting("ok", "", bytes, 0)
  /\ UNCHANGED << cop, cin, framerVars >>

\* A poll_write returns an error ("io"), or accepts no byte, which
\* write_all turns into a WriteZero error: to_writer returns it at the `?`
\* of the write_all it is in.  What the writer accepted before stays
\* written.
IdWriteError ==
  /\ IdWriteWaits
  /\ \E e \in {"io", "write_zero"} : cout' = [cout EXCEPT !.res = "err", !.err = e]
  /\ UNCHANGED << cop, cin, framerVars >>

\* The caller drops to_writer while it is suspended inside a write_all.
IdWriteDrop ==
  /\ IdWriteWaits
  /\ cout' = [cout EXCEPT !.res = "cancelled"]
  /\ UNCHANGED << cop, cin, framerVars >>

\* Id::from_reader in progress or returned: res ("reading" while
\* try_next() waits for the reader, then "ok" or "err", or "cancelled"),
\* the error, the Id, the number of bytes taken from the reader, the
\* number of lines discarded, and the bytes of the line being read.
IdRes(res, err, val, used, skipped, line) ==
  [res |-> res, err |-> err, val |-> val, used |-> used, skipped |-> skipped,
   line |-> line]

\* IdLine that parses the line, whatever it starts with.
IdLineAny(c, raw) ==
  LET nl   == raw # <<>> /\ raw[Len(raw)] = 10
      body == IF nl THEN Slice(raw, 0, Len(raw) - 1) ELSE raw
      line == IF nl /\ body # <<>> /\ body[Len(body)] = 13
              THEN Slice(body, 0, Len(body) - 1) ELSE body
  IN  IF ~IsUtf8(body) THEN IdRes("err", "invalid_data", <<>>, c.used, c.skipped, <<>>)
      ELSE IdRes(IdFromStr(line).res, IdFromStr(line).err, IdFromStr(line).val,
                 c.used, c.skipped, <<>>)

\* lines(reader) has read a line to its end, raw, which holds the LF
\* unless the stream ended first; c.used counts its bytes already.  A
\* line that is not UTF-8 is an InvalidData error, which try_skip_while
\* passes on; otherwise the line is yielded without its LF and without
\* one CR before it: one that does not start with "SSH" is skipped, the
\* first that does is parsed (lines 74-83).
IdLine(c, raw) ==
  LET nl   == raw # <<>> /\ raw[Len(raw)] = 10
      body == IF nl THEN Slice(raw, 0, Len(raw) - 1) ELSE raw
      line == IF nl /\ body # <<>> /\ body[Len(body)] = 13
              THEN Slice(body, 0, Len(body) - 1) ELSE body
  IN  IF ~IsUtf8(body) THEN IdRes("err", "invalid_data", <<>>, c.used, c.skipped, <<>>)
      ELSE IF Len(line) >= 3 /\ Slice(line, 0, 3) = << 83, 83, 72 >>
      THEN IdRes(IdFromStr(line).res, IdFromStr(line).err, IdFromStr(line).val,
                 c.used, c.skipped, <<>>)
      ELSE IdRes("reading", "", <<>>, c.used, c.skipped + 1, <<>>)

\* Id::from_reader over a reader that delivers stream to its end: the
\* lines one after the other, up to the first that ends the call; the end
\* of the stream before such a line is an UnexpectedEof error.
IdFromReader(stream) ==
  LET RECURSIVE Lines(_)
      Lines(c) ==
        IF c.used >= Len(stream)
        THEN IdRes("err", "unexpected_eof", <<>>, Len(stream), c.skipped, <<>>)
        ELSE
          LET end == IF \E i \in (c.used + 1)..Len(stream) : stream[i] = 10
                     THEN CHOOSE i \in (c.used + 1)..Len(stream) :
                            stream[i] = 10 /\ \A j \in (c.used + 1)..(i - 1) : stream[j] # 10
                     ELSE Len(stream)
              d   == IdLine([c EXCEPT !.used = end], Slice(stream, c.used, end))
          IN  IF d.res = "reading" THEN Lines(d) ELSE d
  IN  Lines(IdRes("reading", "", <<>>, 0, 0, <<>>))

\* Id::from_reader is called on a reader that holds a stream of up to
\* three lines: banners, a line holding "SSH" further in, an empty line, a
\* line that is not UTF-8, identification strings, a malformed one; the
\* lines end with CR LF or with LF, the last one possibly with nothing.
\* Nothing is read before the first poll.
IdRead ==
  /\ cop = "idle"
  /\ \E n \in 0..3, crlf \in BOOLEAN, open \in BOOLEAN :
     \E ls \in [1..n -> {<< 104, 105 >>, <<>>, << 120, 83, 83, 72, 45, 50, 45, 97 >>, << 255 >>,
                         << 83, 83, 72, 45, 50, 46, 48, 45, 120, 32, 99 >>,
                         << 83, 83, 72, 120 >>, << 83, 83, 72, 45, 49, 45, 121 >>}] :
       LET term(i) == IF i = n /\ open THEN <<>>
                      ELSE IF crlf THEN << 13, 10 >> ELSE << 10 >>
           RECURSIVE Bytes(_)
           Bytes(i) == IF i > n THEN <<>> ELSE ls[i] \o term(i) \o Bytes(i + 1)
       IN  cin' = [lines |-> ls, crlf |-> crlf, open |-> open, bytes |-> Bytes(1)]
  /\ cout' = IdRes("reading", "", <<>>, 0, 0, <<>>)
  /\ cop' = "id_read"
  /\ UNCHANGED framerVars

\* from_reader waits in try_next().await (lines 73-77).
IdReadWaits == cop = "id_read" /\ cout.res = "reading"

\* One poll of the reader inside lines(): the bytes it hands over are
\* taken up to and including the first LF, and join the line being read;
\* a line that is whole is dealt with, and unless it ends the call the
\* next line is begun.  At the end of the stream the line being read is
\* whole if it holds a byte, and else the lines are over: UnexpectedEof.
IdReadPoll ==
  /\ IdReadWaits
  /\ LET c    == cout
         rest == Slice(cin.bytes, c.used, Len(cin.bytes))
         toLF == IF \E i \in 1..Len(rest) : rest[i] = 10
                 THEN CHOOSE i \in 1..Len(rest) :
                        rest[i] = 10 /\ \A j \in 1..(i - 1) : rest[j] # 10
                 ELSE Len(rest)
     IN  IF rest = <<>>
         THEN cout' = IF c.line = <<>>
                      THEN IdRes("err", "unexpected_eof", <<>>, c.used, c.skipped, <<>>)
                      ELSE IdLine(c, c.line)
         ELSE \E k \in Chunks(Len(c.line) + toLF, Len(c.line), toLF) :
                LET got == c.line \o Slice(rest, 0, k)
                    d   == [c EXCEPT !.used = c.used + k, !.line = got]
                IN  cout' = IF got[Len(got)] = 10 THEN IdLine(d, got) ELSE d
  /\ UNCHANGED << cop, cin, framerVars >>

\* The reader returns an error: try_next() yields it and from_reader
\* returns it at the `?` of line 77.  The lines read before are gone.
IdReadError ==
  /\ IdReadWaits
  /\ cout' = [cout EXCEPT !.res = "err", !.err = "io"]
  /\ UNCHANGED << cop, cin, framerVars >>

\* The caller drops from_reader while it waits for the reader: the bytes
\* taken are lost with the lines.
IdReadDrop ==
  /\ IdReadWaits
  /\ cout' = [cout EXCEPT !.res = "cancelled"]
  /\ UNCHANGED << cop, cin, framerVars >>

\* ----------------------------------------------------------- reason codes
\* trans::DisconnectReason: the variants with a magic, in the order of
\* their declaration; Other(u32), without one, is declared last.
DisconnectReason ==
  << [name |-> "HostNotAllowedToConnect", magic |-> 1],
     [name |-> "ProtocolError", magic |-> 2],
     [name |-> "KeyExchangeFailed", magic |-> 3],
     [name |-> "Reserved", magic |-> 4],
     [name |-> "MacError", magic |-> 5],
     [name |-> "CompressionError", magic |-> 6],
     [name |-> "ServiceNotAvailable", magic |-> 7],
     [name |-> "ProtocolVersionNotSupported", magic |-> 8],
     [name |-> "HostKeyNotVerifiable", magic |-> 9],
     [name |-> "ConnectionLost", magic |-> 10],
     [name |-> "ByApplication", magic |-> 11],
     [name |-> "TooManyConnections", magic |-> 12],
     [name |-> "AuthCancelledByUser", magic |-> 13],
     [name |-> "NoMoreAuthMethodsAvailable", magic |-> 14],
     [name |-> "IllegalUserName", magic |-> 15] >>

\* connect::ChannelOpenFailureReason, likewise.
ChannelOpenFailureReason ==
  << [name |-> "AdministrativelyProhibited", magic |-> 1],
     [name |-> "ConnectFailed", magic |-> 2],
     [name |-> "UnknownChannelType", magic |-> 3],
     [name |-> "ResourceShortage", magic |-> 4] >>

\* BinRead of a reason that tries Other(u32) before the variants with a
\* magic.
ReadReasonOtherFirst(e, bytes) ==
  IF Len(bytes) < 4 THEN Decoded("err", "no_variant", <<>>, 0)
  ELSE Decoded("ok", "", [variant |-> "Other", n |-> FromBE(Slice(bytes, 0, 4))], 4)

\* BinRead of a reason: the variants are tried in the order of their
\* declaration, each reading a u32 and comparing it with its magic (the
\* reader is put back when it differs); Other(u32), tried last, reads the
\* u32 as its field.
ReadReason(e, bytes) ==
  LET RECURSIVE Try(_)
      Try(i) ==
        IF Len(bytes) < 4 THEN Decoded("err", "no_variant", <<>>, 0)
        ELSE IF i > Len(e)
        THEN Decoded("ok", "", [variant |-> "Other", n |-> FromBE(Slice(bytes, 0, 4))], 4)
        ELSE IF FromBE(Slice(bytes, 0, 4)) = ToU32(e[i].magic)
        THEN Decoded("ok", "", [variant |-> e[i].name], 4)
        ELSE Try(i + 1)
  IN  Try(1)

\* BinWrite of a reason: the magic of the variant, or the field of Other.
WriteReason(e, v) ==
  IF v.variant = "Other" THEN Encoded("ok", "", U32BE(v.n))
  ELSE LET i == CHOOSE j \in 1..Len(e) : e[j].name = v.variant
       IN  Encoded("ok", "", U32BE(ToU32(e[i].magic)))

\* Codes tried: 0, the named ones and the next, larger ones, those of
\* the private range.
ReasonCodes ==
  { ToU32(n) : n \in 0..17 } \cup
  { [hi |-> 0, lo |-> Half - 1], [hi |-> 1, lo |-> 0], [hi |-> 1, lo |-> 3],
    [hi |-> 65024, lo |-> 0], [hi |-> Half - 1, lo |-> Half - 1] }

\* A reason read from the four bytes of a code and what follows them.
ReasonRead ==
  /\ cop = "idle"
  /\ \E t \in {"DisconnectReason", "ChannelOpenFailureReason"}, n \in ReasonCodes :
       LET e == IF t = "DisconnectReason" THEN DisconnectReason
                ELSE ChannelOpenFailureReason
       IN  /\ cin' = [type |-> t, code |-> n, bytes |-> U32BE(n) \o Trailer]
           /\ cout' = ReadReason(e, U32BE(n) \o Trailer)
  /\ cop' = "reason_read"
  /\ UNCHANGED framerVars

\* A reason written: a variant with a magic, or Other(k).
ReasonWrite ==
  /\ cop = "idle"
  /\ \E t \in {"DisconnectReason", "ChannelOpenFailureReason"} :
       LET e == IF t = "DisconnectReason" THEN DisconnectReason
                ELSE ChannelOpenFailureReason
       IN  \E v \in { [variant |-> e[i].name] : i \in 1..Len(e) }
                      \cup { [variant |-> "Other", n |-> k] : k \in ReasonCodes } :
             /\ cin' = [type |-> t, value |-> v]
             /\ cout' = WriteReason(e, v)
  /\ cop' = "reason_write"
  /\ UNCHANGED framerVars

CodecNext ==
  \/ Frame
  \/ Deframe
  \/ DeframePoll
  \/ DeframeIoError
  \/ DeframeDrop
  \/ LengthedWrite
  \/ LengthedWriteSized
  \/ LengthedRead
  \/ BytesWrite
  \/ BytesRead
  \/ BytesWriteSized
  \/ TaggedWrite
  \/ TaggedRead
  \/ EcdhWrite
  \/ EcdhWriteSized
  \/ StringWrite
  \/ StringRead
  \/ IdReparse
  \/ IdParse
  \/ IdWrite
  \/ IdWritePoll
  \/ IdWriteError
  \/ IdWriteDrop
  \/ IdRead
  \/ IdReadPoll
  \/ IdReadError
  \/ IdReadDrop
  \/ ReasonRead
  \/ ReasonWrite

\* The codec on its own, next to a connection that stays idle.
CodecInit ==
  /\ suite = [bs |-> 8, msz |-> 0, etm |-> FALSE, key |-> 0, comp |-> "none"]
  /\ seed = 0
  /\ seq0 = NoSeq
  /\ FramerStart
  /\ CodecIdle

CodecSpec == CodecInit /\ [][CodecNext]_vars


\* ================================================================= claims
\* Indices of the entries of a call's record that are operation op.
Ops(log, op) == { i \in 1..Len(log) : log[i].op = op }

\* The payloads whose packet is on the stream up to its last buffer byte:
\* those of the calls that returned Ok, and the one being written once
\* write_all(&buf) is through.
Written ==
  sent \o (IF wpc \in {"write_mac", "ok"} \/ (wpc = "err" /\ wfault = "write_mac")
           THEN << wpayload >> ELSE <<>>)

Returned == rpc \in {"ok", "err", "panic"}

\* ---- C1
\* C1: with the no-op suite (block size 8, MAC size 0, identity compression,
\* no-op cipher), in both MAC-order modes, from_reader over the bytes
\* to_writer(payload, seq) emitted returns exactly payload.
C1_RoundTrip ==
  (NoOpSuite(suite) /\ peer = "honest" /\ rpc = "ok")
    => /\ rok <= Len(Written)
       /\ rout = Written[rok]
       /\ rseq = U32Add(seq0, rok - 1)

C1_Witness ==
  /\ NoOpSuite(suite) /\ ~suite.etm /\ peer = "honest" /\ rpc = "ok"
  /\ rok = 2 /\ Len(rout) = MaxPayloadLen /\ rout = Written[2]

\* ---- C2
\* The length field the sender put in front of the first packet.
SentLen == ToU32(Len(wbuf) - LenFieldSize)

\* C2 as stated: after any single-byte flip of a framed packet, with a real
\* MAC, from_reader fails with the MAC error (an error of the stream
\* aside), never with a size or padding error.
C2_AnyFlipIsMacError ==
  (peer = "tampered" /\ suite.msz > 0 /\ Returned /\ rerr # "io")
    => (rpc = "err" /\ rerr = "mac")

\* C2 amended: a single-byte flip that leaves the length field from_reader
\* parses as the sender wrote it (any byte after the length field, MAC
\* included) makes the read fail with the MAC error, never with a size or
\* padding error and never with success.
C2_FlipPastLengthIsMacError ==
  (peer = "tampered" /\ suite.msz > 0 /\ Returned /\ rerr # "io" /\ rlen = SentLen)
    => (rpc = "err" /\ rerr = "mac")

C2_Witness ==
  /\ peer = "tampered" /\ suite.msz > 0 /\ rpc = "err" /\ rerr = "mac"
  /\ rlen = SentLen
  \* the flipped byte is the padding-length byte, here out of range
  /\ ~suite.etm /\ rbuf[LenFieldSize + 1] > AsUsize(rlen) - 1

\* ---- C3
\* C3: from_reader returns the size error exactly when the parsed length
\* field exceeds PACKET_MAX_SIZE (65535 itself passes), and then it has
\* consumed one block and nothing else and has invoked neither open nor a
\* decrypt beyond that of the first block.
C3_OversizeRejectedEarly ==
  /\ (rlog # <<>> /\ rpc # "panic")
       \* hi >= 1 is a value of at least 2^16 = PACKET_MAX_SIZE + 1
       => ((rpc = "err" /\ rerr = "too_large") <=> rlen.hi >= 1)
  /\ (rpc = "err" /\ rerr = "too_large")
       => /\ rpos - rstart = suite.bs
          /\ Len(rraw) = suite.bs
          /\ Ops(rlog, "read") = {1}
          /\ Ops(rlog, "open") = {}
          /\ \A i \in Ops(rlog, "decrypt") : rlog[i].lo = 0 /\ rlog[i].hi = suite.bs
          /\ Cardinality(Ops(rlog, "decrypt")) = IF suite.etm THEN 0 ELSE 1

C3_Witness ==
  /\ rpc = "err" /\ rerr = "too_large" /\ rlen = [hi |-> 1, lo |-> 0]
  /\ ~suite.etm /\ Avail > 0

\* ---- C4
\* C4: with encrypt-then-mac, from_reader invokes open over the bytes as
\* received (length field, then ciphertext) with the received MAC and seq
\* before any decrypt; decrypt happens only after open succeeded and only
\* over buf[4..], so the length field is never decrypted and nothing is
\* decrypted when the MAC is invalid.
C4_EtmOpenBeforeDecrypt ==
  suite.etm =>
    /\ \A d \in Ops(rlog, "decrypt") :
         /\ rlog[d].lo = LenFieldSize /\ rlog[d].hi = Len(rraw)
         /\ rlog[d].data = Slice(rraw, LenFieldSize, Len(rraw))
         /\ \E o \in Ops(rlog, "open") : o < d /\ rlog[o].ok
    /\ \A o \in Ops(rlog, "open") :
         /\ rlog[o].data = rraw
         /\ rlog[o].seq = rseq
         /\ rlog[o - 1].op = "read" /\ rlog[o].mac = rlog[o - 1].data
         /\ ~rlog[o].ok => Ops(rlog, "decrypt") = {}
    /\ Cardinality(Ops(rlog, "decrypt")) <= 1
    /\ Len(rbuf) >= LenFieldSize
         => Slice(rbuf, 0, LenFieldSize) = Slice(rraw, 0, LenFieldSize)

C4_Witness ==
  /\ suite.etm /\ suite.key # 0 /\ rpc = "ok" /\ rok = 2
  /\ Ops(rlog, "decrypt") # {} /\ rbuf # rraw

\* ---- C5
\* C5: without encrypt-then-mac, from_reader decrypts the first block before
\* it parses the length, decrypts buf[block_size..] next, and then invokes
\* open over the whole plaintext with seq; the two regions are disjoint and
\* cover the packet, so every packet byte is decrypted exactly once, and the
\* MAC trailer is never decrypted.
C5_EamDecryptThenOpen ==
  ~suite.etm =>
    /\ \A p \in Ops(rlog, "parse_len") :
         \E d \in Ops(rlog, "decrypt") :
           d < p /\ rlog[d].lo = 0 /\ rlog[d].hi = suite.bs
    /\ \A d \in Ops(rlog, "decrypt") :
         /\ rlog[d].hi <= Len(rraw)
         /\ rlog[d].data = Slice(rraw, rlog[d].lo, rlog[d].hi)
    /\ \A o \in Ops(rlog, "open") :
         LET D == { d \in Ops(rlog, "decrypt") : d < o }
         IN  /\ D = Ops(rlog, "decrypt")
             /\ \E d1, d2 \in D :
                  /\ d1 < d2 /\ D = {d1, d2}
                  /\ rlog[d1].lo = 0 /\ rlog[d1].hi = suite.bs
                  /\ rlog[d2].lo = suite.bs
                  /\ rlog[d2].hi = LenFieldSize + AsUsize(rlen)
                  /\ \E p \in Ops(rlog, "parse_len") : d1 < p /\ p < d2
             /\ \A i \in 0..(Len(rraw) - 1) :
                  Cardinality({ d \in D : rlog[d].lo <= i /\ i < rlog[d].hi }) = 1
             /\ Len(rraw) = LenFieldSize + AsUsize(rlen)
             /\ rlog[o].data = DecryptBytes(suite, decOff - Len(rraw), rraw)
             /\ rlog[o].seq = rseq
             /\ rlog[o - 1].op = "decrypt" /\ rlog[o - 2].op = "read"
             /\ rlog[o].mac = rlog[o - 2].data

C5_Witness ==
  /\ ~suite.etm /\ suite.key # 0 /\ suite.msz > 0 /\ rpc = "ok" /\ rok = 2
  /\ Ops(rlog, "open") # {}

\* ---- C6
\* The entries where from_reader acts on the content of its buffer.
Acts == { i \in 1..Len(rlog) :
            rlog[i].op \in {"parse_len", "padlen", "payload", "decompress"} }
\* Entry i reads bytes that a decrypt before it produced.
UsesDecrypted(i) ==
  \E d \in Ops(rlog, "decrypt") :
    d < i /\ rlog[d].lo < rlog[i].hi /\ rlog[i].lo < rlog[d].hi
\* open returned success before entry i.
OpenedBefore(i) == \E o \in Ops(rlog, "open") : o < i /\ rlog[o].ok

\* C6 as stated: in both MAC orders no decrypted byte is acted upon (to size
\* the next read, to bound the padding, to cut the payload, to decompress)
\* before open has succeeded.
C6_NothingDecryptedUsedBeforeOpen ==
  rpc # "panic" => \A i \in Acts : UsesDecrypted(i) => OpenedBefore(i)

\* C6 amended: the padding-length check, the payload extraction and the
\* decompression happen only after open succeeded, in both MAC orders; with
\* encrypt-then-mac the length that sizes the read is taken from bytes never
\* decrypted; without it the length field, and only it, is taken from the
\* decrypted first block before open is invoked.
C6_OnlyLengthUsedBeforeOpen ==
  /\ \A i \in Acts : rlog[i].op # "parse_len" => OpenedBefore(i)
  /\ \A i \in Ops(rlog, "parse_len") :
       /\ suite.etm => ~UsesDecrypted(i)
       /\ ~suite.etm => UsesDecrypted(i) /\ ~OpenedBefore(i)

C6_Witness ==
  /\ ~suite.etm /\ suite.key # 0 /\ rpc = "ok"
  /\ Ops(rlog, "decompress") # {} /\ Len(rout) > 0

\* ---- C7
Abandoned == rpc = "cancelled" \/ (rpc = "err" /\ rerr = "io")

\* C7: a from_reader call cancelled at an await, or failed by the stream,
\* has applied neither decrypt nor open for its packet, and the receive
\* counter is not advanced.
C7_AbandonedReadLeavesCipherUntouched ==
  Abandoned =>
    /\ Ops(rlog, "decrypt") = {} /\ Ops(rlog, "open") = {}
    /\ recvSeq = rseq

\* ---- C8
\* C8: each counter is its initial value plus the number of calls that
\* returned Ok, modulo 2^32 (the caller's increment follows the Ok); a call
\* that failed, panicked or was cancelled adds nothing; during a call the
\* counter keeps the value the call was given, which is the value handed to
\* seal / open.
C8_SeqCounters ==
  /\ sendSeq = U32Add(seq0, wok - (IF wpc = "ok" THEN 1 ELSE 0))
  /\ recvSeq = U32Add(seq0, rok - (IF rpc = "ok" THEN 1 ELSE 0))
  /\ wpc \in {"write_buf", "write_mac", "ok", "err"}
       => /\ wseq = sendSeq
          /\ \A i \in Ops(wlog, "seal") : wlog[i].seq = sendSeq
  /\ rpc # "idle"
       => /\ rseq = recvSeq
          /\ \A i \in Ops(rlog, "open") : rlog[i].seq = recvSeq

C8_Witness ==
  /\ seq0 = [hi |-> Half - 1, lo |-> Half - 1]
  /\ wok = 2 /\ wpc = "idle" /\ sendSeq = [hi |-> 0, lo |-> 1]
  /\ rok = 1 /\ rpc = "err" /\ recvSeq = [hi |-> 0, lo |-> 0]

\* ---- C9
Prepared == wpc \in {"write_buf", "write_mac", "ok"}
\* The last bytes of the stream, as many as the call wrote.
WireTail == Slice(wire, Len(wire) - Len(wbuf) - Len(wmac), Len(wire))

\* C9: with encrypt-then-mac, to_writer encrypts every byte of the plaintext
\* but the 4-byte length field, then seals length field || ciphertext with
\* seq, and writes length field || ciphertext, then the MAC.
C9_EtmEncryptThenSeal ==
  (suite.etm /\ Prepared) =>
    LET n == Len(wbuf)
        comp == Compress(suite, wpayload)
    IN  /\ Ops(wlog, "encrypt") = {3} /\ Ops(wlog, "seal") = {4}
        /\ wlog[3].lo = LenFieldSize /\ wlog[3].hi = n
        /\ wlog[3].data[1] = Padding(suite, Len(comp))
        /\ Slice(wlog[3].data, 1, 1 + Len(comp)) = comp
        /\ Len(wlog[3].data) = 1 + Len(comp) + Padding(suite, Len(comp))
        /\ Slice(wbuf, 0, LenFieldSize) = U32BE(ToU32(Len(wlog[3].data)))
        /\ Slice(wbuf, LenFieldSize, n)
             = EncryptBytes(suite, encOff - (n - LenFieldSize), wlog[3].data)
        /\ wlog[4].data = wbuf /\ wlog[4].seq = wseq
        /\ wmac = Seal(suite, wbuf, wseq)
        /\ \A w \in Ops(wlog, "write") :
             /\ w \in {5, 6}
             /\ wlog[w].data = IF w = 5 THEN wbuf ELSE wmac
        /\ (wpc = "ok" /\ peer = "honest") => WireTail = wbuf \o wmac

C9_Witness ==
  /\ suite.etm /\ suite.key # 0 /\ suite.msz > 0 /\ wpc = "ok" /\ wok = 2
  /\ peer = "honest" /\ Len(wpayload) = MaxPayloadLen

\* ---- C10
\* C10: without encrypt-then-mac, to_writer seals the whole plaintext
\* (length field included) with seq before any encryption, then encrypts all
\* of it, and writes the ciphertext, then the MAC as seal returned it.
C10_EamSealThenEncrypt ==
  (~suite.etm /\ Prepared) =>
    LET n == Len(wbuf)
        comp == Compress(suite, wpayload)
        plain == wlog[3].data
    IN  /\ Ops(wlog, "seal") = {3} /\ Ops(wlog, "encrypt") = {4}
        /\ wlog[3].seq = wseq
        /\ Len(plain) = n
        /\ Slice(plain, 0, LenFieldSize) = U32BE(ToU32(n - LenFieldSize))
        /\ plain[LenFieldSize + 1] = Padding(suite, Len(comp))
        /\ Slice(plain, LenFieldSize + 1, LenFieldSize + 1 + Len(comp)) = comp
        /\ n = LenFieldSize + 1 + Len(comp) + Padding(suite, Len(comp))
        /\ wlog[4].lo = 0 /\ wlog[4].hi = n /\ wlog[4].data = plain
        /\ wbuf = EncryptBytes(suite, encOff - n, plain)
        /\ wmac = Seal(suite, plain, wseq)
        /\ \A w \in Ops(wlog, "write") :
             /\ w \in {5, 6}
             /\ wlog[w].data = IF w = 5 THEN wbuf ELSE wmac
        /\ (wpc = "ok" /\ peer = "honest") => WireTail = wbuf \o wmac

C10_Witness ==
  /\ ~suite.etm /\ suite.key # 0 /\ suite.msz > 0 /\ wpc = "ok" /\ wok = 2
  /\ peer = "honest" /\ Len(wpayload) = MaxPayloadLen

\* ---- C11
\* The buffer to_writer assembled, as it was before the cipher encrypted it.
Plaintext(s, r) ==
  IF s.etm
  THEN Slice(r.buf, 0, LenFieldSize)
         \o r.log[CHOOSE i \in Ops(r.log, "encrypt") : TRUE].data
  ELSE r.log[CHOOSE i \in Ops(r.log, "seal") : TRUE].data

\* C11: the plaintext to_writer assembles is the length field, the
\* padding-length byte, the compressed payload and the padding, in that
\* order; the length field is 1 + len(compressed) + padding as a big-endian
\* u32; 4 + 1 + len(compressed) + padding is a multiple of the block size,
\* the padding is at least 4 bytes and the whole is at least
\* PACKET_MIN_SIZE bytes.
C11_PlaintextLayout ==
  cop = "to_writer" =>
    LET s  == cin.suite
        pt == Plaintext(s, cout)
        c  == cout.log[CHOOSE i \in Ops(cout.log, "pad") : TRUE].data
        padding == pt[LenFieldSize + 1]
    IN  /\ cout.res = "ok"
        /\ c = Compress(s, cin.payload)
        /\ Len(pt) = LenFieldSize + 1 + Len(c) + padding
        /\ Slice(pt, 0, LenFieldSize) = U32BE(ToU32(1 + Len(c) + padding))
        /\ Slice(pt, LenFieldSize + 1, LenFieldSize + 1 + Len(c)) = c
        /\ Slice(pt, LenFieldSize + 1 + Len(c), Len(pt))
             = [i \in 1..padding |-> PadByte(0, 1, i)]
        /\ Len(pt) % s.bs = 0
        /\ padding >= 4
        /\ Len(pt) >= PACKET_MIN_SIZE

C11_Witness ==
  /\ cop = "to_writer" /\ cout.res = "ok"
  /\ cin.suite.bs = 16 /\ cin.suite.etm /\ cin.suite.comp = "mark"
  /\ Len(cin.payload) = MaxFrameLen
  /\ Len(cout.buf) >= 2 * cin.suite.bs
  /\ Plaintext(cin.suite, cout)[LenFieldSize + 1] >= 4

\* ---- C12
\* The call got past the MAC: open returned success.
MacVerified(r) == \E i \in Ops(r.log, "open") : r.log[i].ok

\* C12: once the MAC is verified, from_reader returns the padding-too-large
\* error exactly when the padding length exceeds length - 1, and then cuts
\* no payload; the comparison is only made with length >= 1 and a payload
\* is only cut with length - padlen - 1 >= 0, its size.
C12_PaddingBound ==
  (cop = "from_reader" /\ MacVerified(cout)) =>
    LET len == AsUsize(cout.len)
        cut == Ops(cout.log, "payload")
    IN  IF Ops(cout.log, "padlen") = {}
        THEN /\ len = 0
             /\ cout.res = "err" /\ cout.err = "too_small" /\ cut = {}
        ELSE
          LET padlen == cout.buf[LenFieldSize + 1]
          IN  /\ len >= 1
              /\ padlen = cin.padlen
              /\ (padlen > len - 1) <=> (cout.res = "err" /\ cout.err = "pad_too_large")
              /\ (padlen > len - 1) => cut = {}
              /\ \A i \in cut :
                   /\ len - padlen - 1 >= 0
                   /\ cout.log[i].hi - cout.log[i].lo = len - padlen - 1

\* A padding length of exactly length is refused.
C12_Witness ==
  /\ cop = "from_reader" /\ MacVerified(cout)
  /\ cin.suite.msz > 0
  /\ cin.padlen = cin.len /\ cin.len = MaxDeframeLen
  /\ cout.res = "err" /\ cout.err = "pad_too_large"

\* ---- C13
\* C13: on success from_reader hands decompress exactly
\* plaintext[5 .. 5 + length - padlen - 1] and returns what decompress made
\* of it; nothing it does after the MAC is verified touches a byte of the
\* padding behind that slice.
C13_PayloadIsTheSlice ==
  (cop = "from_reader" /\ cout.res = "ok") =>
    LET s    == cin.suite
        stop == LenFieldSize + 1 + (cin.len - cin.padlen - 1)
        data == Slice(cin.plain, LenFieldSize + 1, stop)
        dz   == Ops(cout.log, "decompress")
        open == CHOOSE i \in Ops(cout.log, "open") : TRUE
    IN  /\ Cardinality(dz) = 1
        /\ \A i \in dz :
             /\ cout.log[i].data = data
             /\ cout.log[i].lo = LenFieldSize + 1 /\ cout.log[i].hi = stop
        /\ Decompress(s, data).ok
        /\ cout.out = Decompress(s, data).out
        /\ \A i \in 1..Len(cout.log) :
             (i > open /\ cout.log[i].op \in {"padlen", "payload", "decompress"})
               => cout.log[i].hi <= stop

\* A packet with payload bytes and padding bytes, both non-empty.
C13_Witness ==
  /\ cop = "from_reader" /\ cout.res = "ok"
  /\ cin.suite.comp = "mark" /\ ~cin.suite.etm
  /\ cin.padlen = 4 /\ cin.len = MaxDeframeLen
  /\ Len(cout.out) = cin.len - cin.padlen - 2

\* ---- C14
\* C14: writing a Lengthed<T> whose T serializes to more than MAX_SIZE
\* bytes is an error; a write that succeeds emits u32be(len(enc(T))) and
\* then enc(T), so the length prefix is the number of T bytes written.
C14_LengthedPrefixIsSize ==
  /\ cop = "lengthed_write" =>
        /\ Len(cin.inner) > MAX_SIZE => cout.res = "err"
        /\ cout.res = "ok" =>
             cout.bytes = U32BE(ToU32(Len(cin.inner))) \o cin.inner
  /\ cop = "lengthed_write_sized" =>
        /\ cin.len > MAX_SIZE => cout.res = "err"
        /\ cout.res = "ok" =>
             /\ cout.prefix = U32BE(ToU32(cin.len))
             /\ AsUsize(FromBE(cout.prefix)) = cout.written

\* ---- C15
\* C15: reading a Lengthed<T> takes the 4-byte length n and exactly n more
\* bytes, and returns the T those n bytes encode; bytes left inside the
\* n-byte region after T make the read an error.
C15_LengthedReadRoundTrip ==
  cop = "lengthed_read" =>
    IF cin.extra = 0 /\ Len(cin.inner) > 0
    THEN /\ cout.res = "ok"
         /\ IntoVec(cout.val) = IntoVec(cin.value)
         /\ cout.used = Len(cin.bytes)
    ELSE cout.res = "err"

\* ---- C16
\* The input holds the whole encoding of cin.value.
WholeEncoding == Len(cin.bytes) >= LenFieldSize + Len(cin.value.data)
                 /\ cin.declared = ToU32(Len(cin.value.data))

\* C16: a byte string s encodes to u32be(len(s)) followed by s, the same
\* for an owned and for a borrowed value, whose as_ref and into_vec both
\* give s; reading that encoding back gives content s and takes exactly
\* 4 + len(s) bytes from the reader.
C16_BytesRoundTrip ==
  /\ cop = "bytes_write" =>
       /\ cout.res = "ok"
       /\ cout.bytes = U32BE(ToU32(Len(cin.value.data))) \o cin.value.data
       /\ AsRef(cin.value) = cin.value.data
       /\ IntoVec(cin.value) = cin.value.data
  /\ (cop = "bytes_read" /\ WholeEncoding) =>
       /\ cout.res = "ok"
       /\ AsRef(cout.val) = cin.value.data
       /\ IntoVec(cout.val) = cin.value.data
       /\ cout.used = LenFieldSize + Len(cin.value.data)

\* A borrowed value read back, with bytes left in the reader behind it.
C16_Witness ==
  /\ cop = "bytes_read" /\ WholeEncoding
  /\ cin.value.kind = "borrowed" /\ Len(cin.value.data) = MaxBlobLen
  /\ Len(cin.bytes) > LenFieldSize + MaxBlobLen
  /\ cout.res = "ok" /\ cout.val.kind = "owned"
  /\ cout.used = LenFieldSize + MaxBlobLen

\* ---- C17
\* C17: reading a byte string fails when fewer than 4 bytes are there for
\* the length field and when the declared length exceeds the bytes that
\* follow; a value that is returned has exactly the declared length and is
\* made of the bytes that followed the length field.
C17_BytesReadIsBounded ==
  cop = "bytes_read" =>
    /\ Len(cin.bytes) < LenFieldSize => cout.res = "err"
    /\ (Len(cin.bytes) >= LenFieldSize /\ Exceeds(cin.declared, Len(cin.body)))
         => cout.res = "err"
    /\ cout.res \in {"ok", "err"}
    /\ cout.res = "ok" =>
         /\ ~Exceeds(cin.declared, Len(cin.body))
         /\ Len(AsRef(cout.val)) = AsUsize(cin.declared)
         /\ AsRef(cout.val) = Slice(cin.body, 0, AsUsize(cin.declared))

\* A length field of u32::MAX in front of two bytes is refused, and so is a
\* byte string cut one byte short.
C17_Witness ==
  /\ cop = "bytes_read" /\ cout.res = "err"
  /\ Len(cin.bytes) >= LenFieldSize
  /\ \/ cin.declared = [hi |-> Half - 1, lo |-> Half - 1]
     \/ Len(cin.body) = AsUsize(cin.declared) - 1

\* ---- C18
\* C18: writing a byte string whose length exceeds the 32-bit range of the
\* length field is an error; the prefix written is never the length
\* reduced mod 2^32.
C18_BytesOverflowIsError ==
  cop = "bytes_write_sized" =>
    /\ cin.len.hi >= Half => cout.res = "err"
    /\ cout.res = "ok" =>
         /\ cin.len.hi < Half
         /\ cout.prefix = U32BE(cin.len)

\* ---- C19
\* C19: for GlobalRequest, ChannelOpen, ChannelRequest and the userauth
\* Request and every variant of their context, the bytes written carry the
\* tag as_ascii gives for the variant (the value holds no tag), and reading
\* them back selects that variant with equal fields; a read selects a
\* variant only when the tag read is the tag registered for it.
C19_DispatchRoundTrip ==
  /\ cop = "tagged_write" =>
       LET m == MessageOf(cin.value.msg)
       IN  /\ cout.res = "ok"
           /\ cout.bytes = Wire(m, cin.value, m.as_ascii[cin.value.variant], FALSE)
           /\ DOMAIN cin.value = {"msg", "pre", "mid", "variant", "ctx"}
  /\ (cop = "tagged_read" /\ cin.kind = "encoded") =>
       /\ cout.res = "ok"
       /\ cout.val = cin.value
       /\ cout.used = Len(cin.bytes)
  /\ (cop = "tagged_read" /\ cout.res = "ok") =>
       cin.tag = MessageOf(cin.msg).as_ascii[cout.val.variant]

\* A public-key request with its signature read back, and a variant that
\* is not the first one declared.
C19_Witness ==
  /\ cop = "tagged_read" /\ cin.kind = "encoded" /\ cout.res = "ok"
  /\ cin.msg = "Request" /\ cout.val.variant = "Publickey"
  /\ cout.val.ctx[4] # <<>> /\ cout.val.ctx[1] = Calc
  /\ cout.val = cin.value

\* ---- C20
\* The last field the read parsed.
LastParsed == cout.log[Len(cout.log)]

\* C20 as stated: a tagged message whose tag is not registered fails with
\* the no-variant error, and nothing behind the tag is parsed before it
\* fails.
C20_UnknownTagStopsAtTag ==
  (cop = "tagged_read" /\ cin.kind = "unknown") =>
    /\ cout.res = "err" /\ cout.err = "no_variant"
    /\ LastParsed = Parsed("kind", "kind")

\* C20 amended: the fields the message declares between the tag and the
\* context (want_reply; the three u32 of ChannelOpen) are read before the
\* context is looked at, so a message that ends behind the tag fails with
\* the error of the reader; otherwise the read fails with the no-variant
\* error, and in both cases no field of any variant of the context is
\* parsed and the reader is left where the message began.
C20_UnknownTagReadsNoContext ==
  (cop = "tagged_read" /\ cin.kind = "unknown") =>
    LET m == MessageOf(cin.msg)
    IN  /\ cout.res = "err"
        /\ cout.err = IF cin.cut /\ m.mid # <<>> THEN "io" ELSE "no_variant"
        /\ \A i \in 1..Len(cout.log) :
             cout.log[i].part \in {"magic", "pre", "kind", "mid"}
        /\ (cout.err = "no_variant" /\ m.mid # <<>>)
             => LastParsed = Parsed("mid", m.mid[Len(m.mid)].n)
        /\ cout.used = 0

\* An unknown channel type: the three u32 behind the tag are read, then
\* the read fails.
C20_Witness ==
  /\ cop = "tagged_read" /\ cin.kind = "unknown" /\ ~cin.cut
  /\ cin.msg = "ChannelOpen" /\ cin.tag = ChannelRequest.as_ascii["X11"]
  /\ cout.res = "err" /\ cout.err = "no_variant"
  /\ LastParsed = Parsed("mid", "maximum_packet_size")

\* ---- C21
\* C21: in each context enum (GlobalRequestContext, ChannelOpenContext,
\* ChannelRequestContext, Method) as_ascii gives no two variants the same
\* tag, and for the tag of any message read at most one variant's
\* pre_assert holds.
C21_TagsInjective ==
  /\ \A n \in MessageNames :
       \A a \in Variants(MessageOf(n)), b \in Variants(MessageOf(n)) :
         AsAscii(MessageOf(n), a) = AsAscii(MessageOf(n), b) => a = b
  /\ cop = "tagged_read" =>
       Cardinality({ v \in Variants(MessageOf(cin.msg)) :
                       PreAssert(MessageOf(cin.msg), cin.tag, v) }) <= 1

\* "exit-signal" read: of the eleven channel requests only ExitSignal,
\* whose tag begins like that of ExitStatus, passes its pre_assert.
C21_Witness ==
  /\ cop = "tagged_read" /\ cin.msg = "ChannelRequest"
  /\ cin.tag = AsAscii(ChannelRequest, "ExitSignal")
  /\ { v \in Variants(ChannelRequest) : PreAssert(ChannelRequest, cin.tag, v) }
       = { "ExitSignal" }
  /\ cout.res = "ok" /\ cout.val.variant = "ExitSignal"

\* ---- C22
\* A byte string on the wire: the length as a big-endian u32, the bytes.
LengthPrefixed(b) == U32BE(ToU32(Len(b))) \o b

\* C22: Ecdh serializes to V_C, V_S, I_C, I_S, K_S, Q_C, Q_S, K in this
\* order, the byte strings and the mpint K length-prefixed, I_C and I_S the
\* serialized KexInit behind its 4-byte serialized length, whatever that
\* length is; the hash is the digest of exactly these bytes.
C22_EcdhHashInput ==
  /\ cop = "ecdh_write" =>
       LET e == cin.value
       IN  /\ cout.res = "ok"
           /\ cout.bytes =
                LengthPrefixed(AsRef(e.v_c)) \o LengthPrefixed(AsRef(e.v_s))
                  \o LengthPrefixed(WriteKexInit(e.i_c).bytes)
                  \o LengthPrefixed(WriteKexInit(e.i_s).bytes)
                  \o LengthPrefixed(AsRef(e.k_s)) \o LengthPrefixed(AsRef(e.q_c))
                  \o LengthPrefixed(AsRef(e.q_s)) \o LengthPrefixed(e.k)
           /\ cout.hash = Digest(cout.bytes)
           /\ WriteKexInit(e.i_c).bytes[1] = 20
           /\ Len(WriteKexInit(e.i_c).bytes) = 1 + 16 + 40 + 5 * Len(e.i_c.lists[1]) + 1 + 4
  /\ cop = "ecdh_write_sized" =>
       /\ cout.res = "ok"
       /\ cout.i_c.written = cin.i_c_len
       /\ cout.i_c.prefix = U32BE(ToU32(cin.i_c_len))

\* ---- C23
\* C23: a valid UTF-8 string written as StringUtf8 reads back as the same
\* string, with nothing else consumed; a length-prefixed byte string
\* whose content is not valid UTF-8 is not read as a StringUtf8 and one
\* that holds a byte above 127 is not read as a StringAscii: the read
\* returns an error and no value.
C23_StringCodec ==
  /\ cop = "string_write" =>
       /\ cout.res = "ok"
       /\ ReadStringUtf8(cout.bytes).res = "ok"
       /\ AsRef(ReadStringUtf8(cout.bytes).val) = cin.s
       /\ ReadStringUtf8(cout.bytes).used = Len(cout.bytes)
  /\ (cop = "string_read" /\ cin.type = "StringUtf8") =>
       IF IsUtf8(cin.content)
       THEN cout.res = "ok" /\ AsRef(cout.val) = cin.content
              /\ cout.used = 4 + Len(cin.content)
       ELSE cout.res = "err" /\ AsRef(cout.val) = <<>> /\ cout.used = 0
  /\ (cop = "string_read" /\ cin.type = "StringAscii") =>
       IF \A i \in 1..Len(cin.content) : cin.content[i] <= 127
       THEN cout.res = "ok" /\ AsRef(cout.val) = cin.content
       ELSE cout.res = "err" /\ AsRef(cout.val) = <<>> /\ cout.used = 0

\* U+00E9, valid UTF-8 and not ASCII, read as a StringAscii: the inner
\* StringUtf8 is read, the assertion of StringAscii fails.
C23_Witness ==
  /\ cop = "string_read" /\ cout.res = "err" /\ cout.err = "assert"
  /\ cin.type = "StringAscii" /\ cin.content = << 195, 169 >>
  /\ ReadStringUtf8(cin.bytes).res = "ok"

\* ---- C24
\* C24 as stated: for every Id, parsing its to_string() succeeds and gives
\* back an equal Id.
C24_EveryIdReparses ==
  cop = "id_reparse" => cout.res = "ok" /\ cout.val = cin.id

\* C24 amended: parsing id.to_string() gives back id exactly when the
\* protoversion is not empty and holds neither '-' nor ' ' and the
\* softwareversion is not empty and holds no ' '; the comments can be
\* absent, empty or any text.  When the parse succeeds for another Id it
\* returns a different Id.
C24_WellFormedIdReparses ==
  cop = "id_reparse" =>
    LET id == cin.id
        Has(t, c) == \E i \in 1..Len(t) : t[i] = c
        wellFormed ==
          /\ id.protoversion # <<>> /\ id.softwareversion # <<>>
          /\ ~Has(id.protoversion, 45) /\ ~Has(id.protoversion, 32)
          /\ ~Has(id.softwareversion, 32)
    IN  (cout.res = "ok" /\ cout.val = id) <=> wellFormed

\* An Id with an empty comment reparses with Some(""), not None; one whose
\* software version holds '-' reparses whole.
C24_Witness ==
  /\ cop = "id_reparse" /\ cout.res = "ok" /\ cout.val = cin.id
  /\ cin.id.comments = << <<>> >>
  /\ cin.id.softwareversion = << 120, 45, 121 >>

\* ---- C25
\* C25: from_str accepts a text exactly when the part before its first
\* space is "SSH-", a protoversion that is not empty (and, ending at the
\* next '-', holds none), "-" and a softwareversion that is not empty;
\* every other text is a format error; the comments are None without a
\* space and otherwise the text behind the first space, Some("") when
\* nothing follows it.
C25_FromStrAccepts ==
  cop = "id_parse" =>
    LET s  == cin.text
        sp == IF \E i \in 1..Len(s) : s[i] = 32
              THEN CHOOSE i \in 1..Len(s) : s[i] = 32 /\ \A j \in 1..(i - 1) : s[j] # 32
              ELSE Len(s) + 1
        id == SubSeq(s, 1, sp - 1)
        Form(n) == /\ Len(id) >= 4 + n + 2
                   /\ SubSeq(id, 1, 4) = << 83, 83, 72, 45 >>
                   /\ \A i \in 5..(4 + n) : id[i] # 45
                   /\ id[5 + n] = 45
    IN  IF \E n \in 1..Len(id) : Form(n)
        THEN LET n == CHOOSE k \in 1..Len(id) : Form(k)
             IN  /\ cout.res = "ok"
                 /\ cout.val.protoversion = SubSeq(id, 5, 4 + n)
                 /\ cout.val.softwareversion = SubSeq(id, 6 + n, Len(id))
                 /\ cout.val.comments = IF sp > Len(s) THEN <<>>
                                        ELSE << SubSeq(s, sp + 1, Len(s)) >>
        ELSE cout.res = "err" /\ cout.err = "format"

\* "SSH-2.0-x-y " is accepted: the softwareversion is "x-y" and the
\* comments are Some("").
C25_Witness ==
  /\ cop = "id_parse"
  /\ cin.text = << 83, 83, 72, 45, 50, 46, 48, 45, 120, 45, 121, 32 >>
  /\ cout.res = "ok" /\ cout.val.comments = << <<>> >>
  /\ cout.val.softwareversion = << 120, 45, 121 >>

\* ---- C26
\* C26 as stated: from_reader discards every line before the first one
\* that starts with "SSH" and returns the parse of that line; without such
\* a line it is an unexpected-EOF error; from_reader over what to_writer
\* wrote returns the Id written, for every Id.  (Of the calls that
\* returned, the reader and the writer having raised no error.)
C26_FromReaderSkipsEveryLine ==
  /\ (cop = "id_read" /\ cout.res \in {"ok", "err"} /\ cout.err # "io") =>
       LET ls == cin.lines
           IsLine(i) == ~(i = Len(ls) /\ cin.open /\ ls[i] = <<>>)
           Ssh(i) == IsLine(i) /\ Len(ls[i]) >= 3 /\ SubSeq(ls[i], 1, 3) = << 83, 83, 72 >>
       IN  IF \E i \in 1..Len(ls) : Ssh(i)
           THEN LET k == CHOOSE i \in 1..Len(ls) : Ssh(i) /\ \A j \in 1..(i - 1) : ~Ssh(j)
                IN  /\ cout.res = IdFromStr(ls[k]).res
                    /\ cout.val = IdFromStr(ls[k]).val
                    /\ cout.skipped = k - 1
           ELSE cout.res = "err" /\ cout.err = "unexpected_eof"
  /\ (cop = "id_write" /\ cout.res = "ok") =>
       /\ cout.bytes = IdFmt(cin.id) \o << 13, 10 >>
       /\ IdFromReader(cout.bytes).res = "ok"
       /\ IdFromReader(cout.bytes).val = cin.id

\* C26 amended: from_reader goes through the lines in order and stops at
\* the first one that is not valid UTF-8, with an invalid-data error, or
\* that starts with "SSH", with the parse of that line without its LF or
\* CR LF; the lines before it are discarded, the bytes behind its line
\* terminator stay in the reader, at every moment of the call; when the
\* stream ends first it is an unexpected-EOF error, and an error of the
\* reader ends the call with that error.  to_writer emits to_string() and
\* CR LF, in that order and nothing else, also when it is cut short by an
\* error of the writer; from_reader over what a to_writer that returned
\* Ok wrote returns the Id written exactly when the Id reparses from its
\* to_string() and holds no LF.
C26_FromReaderStopsAtSshLine ==
  /\ cop = "id_read" =>
       LET ls == cin.lines
           n  == Len(ls)
           IsLine(i) == ~(i = n /\ cin.open /\ ls[i] = <<>>)
           Ssh(i) == Len(ls[i]) >= 3 /\ SubSeq(ls[i], 1, 3) = << 83, 83, 72 >>
           Stop(i) == IsLine(i) /\ (Ssh(i) \/ ~IsUtf8(ls[i]))
           OnWire(i) == Len(ls[i]) + (IF i = n /\ cin.open THEN 0
                                    ELSE IF cin.crlf THEN 2 ELSE 1)
           RECURSIVE Upto(_)
           Upto(i) == IF i = 0 THEN 0 ELSE OnWire(i) + Upto(i - 1)
           k == IF \E i \in 1..n : Stop(i)
                THEN CHOOSE i \in 1..n : Stop(i) /\ \A j \in 1..(i - 1) : ~Stop(j)
                ELSE 0
       IN  /\ cout.used <= (IF k = 0 THEN Len(cin.bytes) ELSE Upto(k))
           /\ k # 0 => cout.skipped <= k - 1
           /\ cout.res \in {"reading", "cancelled", "ok", "err"}
           /\ (cout.res \in {"ok", "err"} /\ cout.err # "io") =>
                IF k # 0
                THEN /\ cout.skipped = k - 1
                     /\ cout.used = Upto(k)
                     /\ IF Ssh(k)
                        THEN /\ cout.res = IdFromStr(ls[k]).res
                             /\ cout.err = IdFromStr(ls[k]).err
                             /\ cout.val = IdFromStr(ls[k]).val
                        ELSE cout.res = "err" /\ cout.err = "invalid_data"
                ELSE /\ cout.res = "err" /\ cout.err = "unexpected_eof"
                     /\ cout.used = Len(cin.bytes)
  /\ cop = "id_write" =>
       LET id == cin.id
           Has(t, c) == \E i \in 1..Len(t) : t[i] = c
           all  == IdFmt(id) \o << 13, 10 >>
           back == IdFromReader(cout.bytes)
       IN  /\ cout.bytes = SubSeq(all, 1, Len(cout.bytes))
           /\ cout.res \in {"write_text", "write_crlf", "cancelled", "ok", "err"}
           /\ cout.res = "ok" =>
                /\ cout.bytes = all
                /\ (back.res = "ok" /\ back.val = id) <=>
                     /\ IdFromStr(IdFmt(id)).res = "ok" /\ IdFromStr(IdFmt(id)).val = id
                     /\ ~Has(IdFmt(id), 10)
                /\ ~Has(IdFmt(id), 10) => back.used = Len(cout.bytes)

\* Two lines are discarded, the third is parsed with its comment, and it
\* ends with CR LF.
C26_Witness ==
  /\ cop = "id_read" /\ cin.crlf /\ ~cin.open /\ Len(cin.lines) = 3
  /\ cin.lines[2] = << 120, 83, 83, 72, 45, 50, 45, 97 >>
  /\ cout.res = "ok" /\ cout.skipped = 2 /\ cout.used = Len(cin.bytes)
  /\ cout.val.comments = << << 99 >> >>

\* ---- C27
\* C27: a from_reader that returns a packet has taken exactly
\* 4 + length + mac_size bytes from the stream, in three reads (one
\* block, length + 4 - block_size bytes, the MAC), so it ends where the
\* next packet begins: the packets to_writer wrote one after the other
\* with consecutive sequence numbers are returned in the order written,
\* each read with the sequence number it was written with.
C27_ReadTakesOnePacket ==
  rpc = "ok" =>
    LET reads == Ops(rlog, "read")
    IN  /\ rpos - rstart = LenFieldSize + AsUsize(rlen) + suite.msz
        /\ Cardinality(reads) = 3
        /\ \E a \in reads, b \in reads, c \in reads :
             /\ a < b /\ b < c
             /\ rlog[a].lo = rstart /\ rlog[a].hi = rstart + suite.bs
             /\ rlog[b].lo = rlog[a].hi
             /\ rlog[b].hi - rlog[b].lo = AsUsize(rlen) + LenFieldSize - suite.bs
             /\ rlog[c].lo = rlog[b].hi
             /\ rlog[c].hi - rlog[c].lo = suite.msz
             /\ rlog[c].hi = rpos
        /\ peer = "honest" =>
             /\ rok = Len(recvd) + 1 /\ rok <= Len(Written)
             /\ recvd = SubSeq(Written, 1, Len(recvd))
             /\ rout = Written[rok]
             /\ rseq = U32Add(seq0, rok - 1)

\* The second of two packets written back to back under a real cipher and
\* MAC is returned, the stream read to its end.
C27_Witness ==
  /\ rpc = "ok" /\ peer = "honest" /\ suite.msz = 2 /\ suite.etm
  /\ rok = 2 /\ rstart > 0 /\ rpos = Len(wire) /\ wcalls = 2
  /\ rout = Written[2] /\ recvd = << Written[1] >>

\* ---- C28
\* C28: whatever the block size, the bytes on the stream and the length
\* they declare (from 0 to the maximum, also when length + 4 is less than
\* the block size), a from_reader that ends returns a packet or an error:
\* it never indexes or slices its buffer out of range, never aborts.
C28_FromReaderTotal ==
  /\ rpc # "panic"
  /\ Returned => rpc \in {"ok", "err"}
  /\ (cop = "from_reader" /\ cout.res \notin {"read_block", "read_rest", "read_mac",
                                                "cancelled"})
       => cout.res \in {"ok", "err"}

\* ---- C29
\* C29: a to_writer in which compress, pad, encrypt or seal returns an
\* error has written nothing: the stream holds the packets of the earlier
\* calls and not a byte more; a to_writer that returns Ok has written the
\* packet (4 + length bytes) and after it the MAC, and while it writes the
\* bytes it has put on the stream are the first of the packet followed by
\* the MAC.
C29_NothingWrittenOnCipherError ==
  LET writes == Ops(wlog, "write")
      RECURSIVE Before(_)
      Before(i) ==
        IF i = 0 THEN 0
        ELSE LET n == Len(Compress(suite, sent[i]))
             IN  LenFieldSize + 1 + n + Padding(suite, n) + suite.msz + Before(i - 1)
  IN  /\ (wpc = "err" /\ wfault \in {"compress", "pad", "encrypt", "seal"}) =>
           /\ writes = {}
           /\ wbuf = <<>> /\ wmac = <<>>
           /\ Len(wire) = Before(Len(sent))
      /\ wpc = "ok" =>
           /\ Cardinality(writes) = 2
           /\ \E a \in writes, b \in writes :
                /\ a < b
                /\ wlog[a].data = wbuf /\ wlog[b].data = wmac
                /\ \A i \in 1..Len(wlog) :
                     wlog[i].op \in {"compress", "pad", "encrypt", "seal"} => i < a
           /\ Len(wire) = Before(Len(sent)) + Len(wbuf) + Len(wmac)
           /\ SubSeq(wire, Before(Len(sent)) + 1, Len(wire)) = wbuf \o wmac
      /\ wpc \in {"write_buf", "write_mac"} =>
           LET n == (IF wpc = "write_mac" THEN Len(wbuf) ELSE 0) + wdone
           IN  /\ Len(wire) = Before(Len(sent)) + n
               /\ SubSeq(wire, Before(Len(sent)) + 1, Len(wire))
                    = SubSeq(wbuf \o wmac, 1, n)

\* The second call fails in seal, after the encryption: the stream still
\* ends with the MAC of the first packet.
C29_Witness ==
  /\ wpc = "err" /\ wfault = "seal" /\ suite.etm /\ suite.msz = 2
  /\ Len(sent) = 1 /\ wire # <<>> /\ wcalls = 2
  /\ \E i \in 1..Len(wlog) : wlog[i].op = "encrypt" /\ wlog[i].ok

\* ---- C30
\* C30 as stated: every 32-bit code decodes, a named code to its variant
\* and any other to Other(n), and the decoded value encodes to the code;
\* every reason value, Other(k) for every k included, decodes from its
\* encoding as itself.
C30_ReasonRoundTrips ==
  LET e == IF cin.type = "DisconnectReason" THEN DisconnectReason
           ELSE ChannelOpenFailureReason
      Named(n) == \E i \in 1..Len(e) : n = ToU32(e[i].magic)
  IN  /\ cop = "reason_read" =>
           /\ cout.res = "ok" /\ cout.used = 4
           /\ Named(cin.code) <=> cout.val.variant # "Other"
           /\ ~Named(cin.code) => cout.val = [variant |-> "Other", n |-> cin.code]
           /\ WriteReason(e, cout.val).bytes = U32BE(cin.code)
      /\ cop = "reason_write" =>
           /\ cout.res = "ok"
           /\ ReadReason(e, cout.bytes).res = "ok"
           /\ ReadReason(e, cout.bytes).val = cin.value

\* C30 amended: as stated for the codes; a reason value decodes from its
\* encoding as itself unless it is Other(k) with k the code of a named
\* variant, which is written as k and decodes as that variant.
C30_ReasonRoundTripsButOtherOfNamed ==
  LET e == IF cin.type = "DisconnectReason" THEN DisconnectReason
           ELSE ChannelOpenFailureReason
      Named(n) == \E i \in 1..Len(e) : n = ToU32(e[i].magic)
  IN  /\ cop = "reason_read" =>
           /\ cout.res = "ok" /\ cout.used = 4
           /\ Named(cin.code) <=> cout.val.variant # "Other"
           /\ Named(cin.code) =>
                \E i \in 1..Len(e) :
                  cin.code = ToU32(e[i].magic) /\ cout.val = [variant |-> e[i].name]
           /\ ~Named(cin.code) => cout.val = [variant |-> "Other", n |-> cin.code]
           /\ WriteReason(e, cout.val).bytes = U32BE(cin.code)
      /\ cop = "reason_write" =>
           LET back == ReadReason(e, cout.bytes)
           IN  /\ cout.res = "ok" /\ Len(cout.bytes) = 4
               /\ back.res = "ok"
               /\ IF cin.value.variant = "Other" /\ Named(cin.value.n)
                  THEN /\ cout.bytes = U32BE(cin.value.n)
                       /\ back.val.variant # "Other"
                       /\ WriteReason(e, back.val).bytes = cout.bytes
                  ELSE back.val = cin.value

\* Code 5 is MacError for a disconnect and Other(5) for a channel-open
\* failure, which knows four codes.
C30_Witness ==
  /\ cop = "reason_read" /\ cin.code = ToU32(5)
  /\ cin.type = "ChannelOpenFailureReason"
  /\ cout.val = [variant |-> "Other", n |-> ToU32(5)]
  /\ ReadReason(DisconnectReason, cin.bytes).val = [variant |-> "MacError"]
====
